---------------------------- MODULE Spec2Model ----------------------------
(***************************************************************************)
(* Order creation, persistence, notification fan-out and order tracking of *)
(* the LWG e-commerce backend.                                             *)
(*                                                                         *)
(* Two servers are modelled, each with its own Order collection:           *)
(*   - the notifier server (handleCreateOrder, /api/orders/track), whose   *)
(*     OrderSchema is declared inline;                                     *)
(*   - the orders router (routes/orders.js) on top of models/Order.js.     *)
(*                                                                         *)
(* Strings that the code inspects character by character (phones, emails,  *)
(* addresses) are tuples of one-character strings.  An absent optional     *)
(* number is <<>> and a present one is <<n>>.                              *)
(***************************************************************************)
EXTENDS Integers, Sequences, FiniteSets, TLC

VARIABLES
    conn,      \* notifier: mongoose.connection.readyState === 1
    cfg,       \* notifier: environment (WhatsApp, templates, Cloudinary)
    orders,    \* notifier: documents of the Order collection, in insertion order
    rorders,   \* router: documents of the Order collection, in insertion order
    rq,        \* the order-creation request being handled and its bookkeeping
    obs,       \* the last response of a read endpoint (track)
    nreq,      \* number of order-creation requests received so far
    adm,       \* the administrative update being handled and its bookkeeping
    catalog,   \* documents of the Product collection
    db,        \* db.js: the connection latch, the connection loops and their callers
    cl         \* store.js in one browser: localStorage, the health cache, calls in progress

vars == <<conn, cfg, cl, db, catalog, orders, rorders, rq, obs, nreq, adm>>

-----------------------------------------------------------------------------
(* Bounds *)

\* order-creation requests per behaviour
MaxRequests == 2

\* order-creation requests per behaviour when tracking is observed as well
MaxTracked == 1

\* administrative update requests per behaviour
MaxAdmin == 2

\* calls of connectDB per behaviour
MaxCalls == 3

-----------------------------------------------------------------------------
(* Characters and strings *)

Digit == {"0", "1", "2", "3", "4", "5", "6", "7", "8", "9"}

\* String.prototype.toLowerCase on one character
ToLowerChar(c) ==
    CASE c = "A" -> "a"
      [] c = "B" -> "b"
      [] c = "C" -> "c"
      [] c = "M" -> "m"
      [] OTHER   -> c

RECURSIVE MapSeq(_, _)
MapSeq(s, i) ==
    IF i > Len(s) THEN <<>> ELSE <<ToLowerChar(s[i])>> \o MapSeq(s, i + 1)

ToLowerCase(s) == MapSeq(s, 1)

\* String.prototype.trim
RECURSIVE TrimLeft(_)
TrimLeft(s) ==
    IF s # <<>> /\ s[1] = " " THEN TrimLeft(Tail(s)) ELSE s

RECURSIVE TrimRight(_)
TrimRight(s) ==
    IF s # <<>> /\ s[Len(s)] = " " THEN TrimRight(SubSeq(s, 1, Len(s) - 1)) ELSE s

Trim(s) == TrimRight(TrimLeft(s))

\* Reference strings: String.prototype.toUpperCase on the references in use
ToUpperRef(r) ==
    CASE r = "lwg-aaaaaa" -> "LWG-AAAAAA"
      [] r = "lwg-bbbbbb" -> "LWG-BBBBBB"
      [] OTHER            -> r

\* /^\+\d{8,15}$/.test(phone)
IsE164(s) ==
    /\ Len(s) >= 9
    /\ Len(s) <= 16
    /\ s[1] = "+"
    /\ \A i \in 2..Len(s) : s[i] \in Digit

\* orders.js normalizePhone
normalizePhone(v) ==
    IF v = <<>> THEN <<>>
    ELSE LET kept   == SelectSeq(v, LAMBDA c : c \in Digit \cup {"+"})
             digits == IF kept # <<>> /\ kept[1] = "+" THEN Tail(kept) ELSE kept
         IN  IF digits # <<>> THEN <<"+">> \o digits ELSE <<>>

\* normalizePhone(v).startsWith('+')
StartsWithPlus(s) == s # <<>> /\ s[1] = "+"

\* orders.js isEmail: /\S+@\S+\.\S+/.test(v), an unanchored search
isEmail(s) ==
    \E a \in 1..Len(s) :
        /\ s[a] = "@"
        /\ a >= 2
        /\ s[a - 1] # " "
        /\ \E b \in (a + 2)..Len(s) :
               /\ s[b] = "."
               /\ \A k \in (a + 1)..(b - 1) : s[k] # " "
               /\ b < Len(s)
               /\ s[b + 1] # " "

EmailLocalChar == {"a", "b", "c", "d", "o", "A", "B", "C", "M", "m", ".", "_", "+", "-"} \cup Digit
EmailLetter    == {"a", "b", "c", "d", "o", "A", "B", "C", "M", "m"}

\* zod z.string().email(): one "@", a non-empty local part that neither starts
\* with "." nor holds "..", and a domain of dot-separated labels ending in a
\* top-level label of at least two letters.
ZodEmail(s) ==
    /\ Cardinality({i \in 1..Len(s) : s[i] = "@"}) = 1
    /\ LET a == CHOOSE i \in 1..Len(s) : s[i] = "@"
           n == Len(s)
       IN  /\ a >= 2
           /\ s[1] # "."
           /\ \A i \in 1..(a - 1) : s[i] \in EmailLocalChar
           /\ s[a - 1] # "."
           /\ \A i \in 1..(n - 1) : ~(s[i] = "." /\ s[i + 1] = ".")
           /\ \A i \in (a + 1)..n : s[i] \in EmailLetter \cup Digit \cup {".", "-"}
           /\ a + 1 <= n
           /\ s[a + 1] \in EmailLetter \cup Digit
           /\ \E d \in (a + 2)..n :
                  /\ s[d] = "."
                  /\ n - d >= 2
                  /\ \A i \in (d + 1)..n : s[i] \in EmailLetter

-----------------------------------------------------------------------------
(* Numbers *)

\* Number.isFinite(Number(x)) for an optional JSON number
IsFinite(x) == x # <<>>

\* z.number().nonnegative().optional()
NonNegOpt(x) == x = <<>> \/ x[1] >= 0

\* A JSON quantity is qty (+ 0.5 when half): z.number().int().positive()
IntPositive(it) == ~it.half /\ it.qty > 0

RECURSIVE SumItems(_, _)
\* items.reduce((s, i) => s + i.product.price * i.qty, 0)
SumItems(items, i) ==
    IF i > Len(items) THEN 0
    ELSE items[i].price * items[i].qty + SumItems(items, i + 1)

-----------------------------------------------------------------------------
(* Notifier: constants and validation (zod schemas) *)

\* DELIVERY_ZONES[z] ?? 0
feeFromZone(z) ==
    CASE z = "Pick-up (No delivery)"    -> 0
      [] z = "Freetown (Urban)"         -> 25
      [] z = "Greater Freetown"         -> 40
      [] z = "Provinces (Major towns)"  -> 80
      [] z = "Provinces (Remote)"       -> 120
      [] OTHER                          -> 0

ItemSchema(it) == IntPositive(it) /\ it.price >= 0

OrderInfoSchema(p) ==
    /\ p.name # ""
    /\ Len(p.phone) >= 7
    /\ (p.email = <<>> \/ ZodEmail(p.email))
    /\ p.payment # ""
    /\ Len(p.address) >= 3

\* IncomingOrderSchema.parse(req.body.order || req.body) does not throw
IncomingOrderSchema(p) ==
    /\ p.shape = "front"
    /\ Len(p.items) >= 1
    /\ \A i \in 1..Len(p.items) : ItemSchema(p.items[i])
    /\ NonNegOpt(p.total)
    /\ OrderInfoSchema(p)

\* handleCreateOrder with grandTotal falling back to the subtotal alone
NotifierTotals_NoFee(p) ==
    LET subtotal    == IF IsFinite(p.total) THEN p.total[1] ELSE SumItems(p.items, 1)
        deliveryFee == IF IsFinite(p.deliveryFee) THEN p.deliveryFee[1]
                       ELSE feeFromZone(p.deliveryZone)
        grandTotal  == IF IsFinite(p.grandTotal) THEN p.grandTotal[1]
                       ELSE subtotal
    IN  [subtotal |-> subtotal, deliveryFee |-> deliveryFee, grandTotal |-> grandTotal]

\* subtotal, deliveryFee and grandTotal of handleCreateOrder
NotifierTotals(p) ==
    LET subtotal    == IF IsFinite(p.total) THEN p.total[1] ELSE SumItems(p.items, 1)
        deliveryFee == IF IsFinite(p.deliveryFee) THEN p.deliveryFee[1]
                       ELSE feeFromZone(p.deliveryZone)
        grandTotal  == IF IsFinite(p.grandTotal) THEN p.grandTotal[1]
                       ELSE subtotal + deliveryFee
    IN  [subtotal |-> subtotal, deliveryFee |-> deliveryFee, grandTotal |-> grandTotal]

-----------------------------------------------------------------------------
(* Router: validation (zod schemas) and normalisation *)

FrontLineItemSchema(it) == IntPositive(it) /\ it.title # "" /\ it.price >= 0

\* the .refine() of FrontOrderSchema.info and FlatOrderSchema.info
ContactRefine(p) ==
    \/ (p.phone # <<>> /\ StartsWithPlus(normalizePhone(p.phone)))
    \/ (p.email # <<>> /\ isEmail(p.email))

FrontOrderSchema(p) ==
    /\ Len(p.items) >= 1
    /\ \A i \in 1..Len(p.items) : FrontLineItemSchema(p.items[i])
    /\ NonNegOpt(p.total)
    /\ p.name # ""
    /\ NonNegOpt(p.deliveryFee)
    /\ NonNegOpt(p.subtotal)
    /\ NonNegOpt(p.grandTotal)
    /\ ContactRefine(p)

\* the data of a successful FrontOrderSchema.safeParse: defaults filled in
FrontParsed(p) ==
    [p EXCEPT !.deliveryFee = IF p.deliveryFee = <<>> THEN <<0>> ELSE p.deliveryFee,
              !.subtotal    = IF p.subtotal = <<>> THEN <<0>> ELSE p.subtotal]

FlatOrderSchema(p) ==
    /\ Len(p.items) >= 1
    /\ \A i \in 1..Len(p.items) : FrontLineItemSchema(p.items[i])
    /\ p.subtotal # <<>> /\ p.subtotal[1] >= 0
    /\ NonNegOpt(p.deliveryFee)
    /\ p.grandTotal # <<>> /\ p.grandTotal[1] >= 0
    /\ ContactRefine(p)
    /\ p.subtotal[1] + (IF p.deliveryFee = <<>> THEN 0 ELSE p.deliveryFee[1])
          = p.grandTotal[1]

computeTotalsFromFront(front) ==
    LET subtotal    == IF front.subtotal # <<>> THEN front.subtotal[1]
                       ELSE SumItems(front.items, 1)
        deliveryFee == IF front.deliveryFee # <<>> THEN front.deliveryFee[1] ELSE 0
        grandTotal  == IF front.grandTotal # <<>> THEN front.grandTotal[1]
                       ELSE IF front.total # <<>> THEN front.total[1]
                       ELSE subtotal + deliveryFee
    IN  [subtotal |-> subtotal, deliveryFee |-> deliveryFee, grandTotal |-> grandTotal]

\* items.map of toDbOrderFromFront / toDbOrderFromFlat: title and unit price
\* are nested under product, the unit price is repeated at line level
RECURSIVE DbItems(_, _)
DbItems(items, i) ==
    IF i > Len(items) THEN <<>>
    ELSE <<[product |-> [title |-> items[i].title, price |-> items[i].price],
            qty     |-> items[i].qty,
            price   |-> items[i].price]>> \o DbItems(items, i + 1)

toDbOrderFromFront(front) ==
    LET t == computeTotalsFromFront(front)
    IN  [items        |-> DbItems(front.items, 1),
         subtotal     |-> t.subtotal,
         deliveryZone |-> front.deliveryZone,
         deliveryFee  |-> t.deliveryFee,
         grandTotal   |-> t.grandTotal,
         info         |-> [name    |-> front.name,
                           phone   |-> IF front.phone # <<>> THEN normalizePhone(front.phone)
                                       ELSE <<>>,
                           email   |-> ToLowerCase(Trim(front.email)),
                           address |-> front.address]]

toDbOrderFromFlat(flat) ==
    [items        |-> DbItems(flat.items, 1),
     subtotal     |-> flat.subtotal[1],
     deliveryZone |-> flat.deliveryZone,
     deliveryFee  |-> IF flat.deliveryFee = <<>> THEN 0 ELSE flat.deliveryFee[1],
     grandTotal   |-> flat.grandTotal[1],
     info         |-> [name    |-> flat.name,
                       phone   |-> IF flat.phone # <<>> THEN normalizePhone(flat.phone)
                                   ELSE <<>>,
                       email   |-> ToLowerCase(Trim(flat.email)),
                       address |-> flat.address]]

-----------------------------------------------------------------------------
(* Router: models/Order.js (mongoose schema, strict mode) *)

ALLOWED_STATUSES == {"New", "Processing", "Shipped", "Completed", "Cancelled"}
PAYMENT_STATES   == {"Pending", "Paid", "Failed", "Refunded"}

\* itemSchema declares productId, title, price and qty; strict mode drops
\* every other key of a line item when the sub-document is cast
CastItem(it) ==
    [f \in (DOMAIN it) \cap {"productId", "title", "price", "qty"} |-> it[f]]

RECURSIVE CastItems(_, _)
CastItems(items, i) ==
    IF i > Len(items) THEN <<>>
    ELSE <<CastItem(items[i])>> \o CastItems(items, i + 1)

\* itemSchema validators: title required, price min 0, qty min 1
itemSchema(ci) ==
    /\ "title" \in DOMAIN ci
    /\ ("price" \in DOMAIN ci => ci.price >= 0)
    /\ ("qty" \in DOMAIN ci => ci.qty >= 1)

\* the document mongoose builds from Order.create(input): casting, trim and
\* lowercase setters, and the pre('save') hook that upper-cases the reference
OrderDoc(input, id) ==
    [id            |-> id,
     ref           |-> ToUpperRef(input.ref),
     items         |-> CastItems(input.items, 1),
     subtotal      |-> input.subtotal,
     deliveryZone  |-> input.deliveryZone,
     deliveryFee   |-> input.deliveryFee,
     grandTotal    |-> input.grandTotal,
     paymentStatus |-> input.paymentStatus,
     info          |-> [name    |-> input.info.name,
                        phone   |-> Trim(input.info.phone),
                        email   |-> ToLowerCase(Trim(input.info.email)),
                        address |-> Trim(input.info.address)],
     status        |-> input.status]

\* orderSchema validators plus the unique index on ref
orderSchema(doc, coll) ==
    /\ doc.ref # ""
    /\ Len(doc.items) > 0
    /\ \A i \in 1..Len(doc.items) : itemSchema(doc.items[i])
    /\ doc.subtotal >= 0
    /\ doc.deliveryFee >= 0
    /\ doc.grandTotal >= 0
    /\ doc.paymentStatus \in PAYMENT_STATES
    /\ doc.status \in ALLOWED_STATUSES
    /\ \A k \in 1..Len(coll) : coll[k].ref # doc.ref

-----------------------------------------------------------------------------
(* Request payloads *)

PhoneE164  == <<"+", "2", "3", "2", "7", "6", "1", "2", "3", "4">>
PhoneLocal == <<"0", "7", "6", "1", "2", "3", "4", "5">>
PhoneWords == <<"a", "b", "c", "d", "e", "f", "g">>
PhoneShort == <<"1", "2", "3">>

EmailOk    == <<"a", "@", "b", ".", "c", "o">>
EmailUpper == <<"A", "@", "b", ".", "c", "o">>
EmailBad   == <<"b", "a", "d">>

AddrOk     == <<"1", "2", " ", "M", "a">>
AddrShort  == <<"x", "y">>

Mug    == [title |-> "Mug", qty |-> 2, half |-> FALSE, price |-> 80]
Pen    == [title |-> "Pen", qty |-> 1, half |-> FALSE, price |-> 5]

\* the reference strings Math.random().toString(36) can produce
RefGen == {"LWG-AAAAAA", "LWG-BBBBBB"}

BasePayload ==
    [shape |-> "front", id |-> "", items |-> <<Mug>>, total |-> <<>>,
     name |-> "Ann", phone |-> PhoneE164, email |-> EmailOk, payment |-> "cash",
     address |-> AddrOk, deliveryZone |-> "Greater Freetown",
     deliveryFee |-> <<>>, subtotal |-> <<>>, grandTotal |-> <<>>, proof |-> TRUE]

\* payloads of the full pipeline
Payloads ==
    { [BasePayload EXCEPT !.id = "LWG-AAAAAA"],
      [BasePayload EXCEPT !.id = "LWG-AAAAAA", !.phone = PhoneLocal, !.email = <<>>,
                          !.deliveryZone = "", !.grandTotal = <<100>>, !.proof = FALSE],
      [BasePayload EXCEPT !.phone = PhoneLocal, !.total = <<200>>,
                          !.deliveryFee = <<10>>, !.proof = FALSE],
      [BasePayload EXCEPT !.items = <<>>] }

\* payloads of order intake: every combination of the field values below
ItemLists ==
    { <<>>,
      <<Mug>>,
      <<Mug, Pen>>,
      <<[Mug EXCEPT !.qty = 0]>>,
      <<[Mug EXCEPT !.qty = 1, !.half = TRUE]>>,
      <<Mug, [Pen EXCEPT !.price = -1]>> }

IntakePayloads ==
    [shape        : {"front", "flat"},
     id           : {""},
     items        : ItemLists,
     total        : {<<>>, <<200>>},
     name         : {"Ann"},
     phone        : {<<>>, PhoneE164, PhoneWords, PhoneShort},
     email        : {<<>>, EmailOk, EmailBad},
     payment      : {"cash"},
     address      : {<<>>, AddrShort, AddrOk},
     deliveryZone : {"", "Greater Freetown", "Mars"},
     deliveryFee  : {<<>>, <<10>>, <<-5>>},
     subtotal     : {<<>>, <<50>>},
     grandTotal   : {<<>>, <<100>>},
     proof        : {FALSE}]

-----------------------------------------------------------------------------
(* State *)

\* environments of the notifier: WHATSAPP_TOKEN/WHATSAPP_PHONE_ID/ADMIN_WA,
\* WA_TEMPLATE_NEW_ORDER/WA_TEMPLATE_ORDER_CONFIRM, CLOUDINARY_CLOUD_NAME
Configs ==
    { [wa |-> TRUE,  tmpl |-> TRUE,  cloud |-> TRUE],
      [wa |-> TRUE,  tmpl |-> FALSE, cloud |-> TRUE],
      [wa |-> FALSE, tmpl |-> FALSE, cloud |-> FALSE] }

\* the notification channels of handleCreateOrder
Channels == {"adminEmail", "custEmail", "adminWA", "custWA"}

NoTotals == [subtotal |-> 0, deliveryFee |-> 0, grandTotal |-> 0]
NoResp   == [status |-> 0, ok |-> FALSE, ref |-> "", id |-> 0]

IdleRq ==
    [route |-> "none", pc |-> "idle", p |-> BasePayload, ref |-> "",
     valid |-> FALSE, totals |-> NoTotals, proofUrl |-> FALSE, saved |-> <<>>, pdf |-> <<>>,
     pdfBuf |-> FALSE, notified |-> <<>>, att |-> {}, fails |-> {}, blk |-> <<>>,
     cnt |-> [c \in Channels |-> 0], dlv |-> [c \in Channels |-> 0],
     resp |-> NoResp]

NoQ == [op |-> "none", v |-> <<>>]

\* JavaScript values a quantity can take: an integer, NaN, a non-numeric string
Num(n) == [t |-> "number", v |-> n]
NaN    == [t |-> "nan", v |-> 0]
Text   == [t |-> "string", v |-> 0]

\* the products seedIfNeeded writes to localStorage
LocalProducts ==
    {[id |-> "tee", title |-> "LWG Classic Tee", price |-> 180],
     [id |-> "cap", title |-> "Express Cap", price |-> 120]}

\* a call of placeOrder or of products that has not started
NoOp == [pc |-> "idle", t |-> 0, ready |-> FALSE, items |-> <<>>, subtotal |-> 0,
         start |-> 0, sentAt |-> 0, got |-> "none", result |-> "none", why |-> "none"]

\* no cart operation has run
NoCartOp == [op |-> "none", id |-> "", qty |-> Num(0), before |-> <<>>]

\* store.js after seedIfNeeded at time 1: _apiHealth = { checkedAt: 0, ok: false },
\* an empty cart and no local order; ver names the copy of the store in use
\* ("new": store.js, "old": part_008); hlog lists the times at which a health
\* request was issued, placed counts the calls of placeOrder, last is the
\* latest cart operation and the cart it found
IdleCl ==
    [ver |-> "new", now |-> 1, health |-> [checkedAt |-> 0, ok |-> FALSE], hlog |-> <<>>,
     products |-> LocalProducts, cart |-> <<>>, lorders |-> <<>>,
     po |-> NoOp, pr |-> NoOp, placed |-> 0, last |-> NoCartOp]

\* db.js before the first call of connectDB: `connecting` is null (0), no
\* connection loop was started, mongoose is not connected; ver names the copy
\* of connectDB in use ("a": lines 45-100, "b": lines 176-229)
NoCall == [kind |-> "none", loop |-> 0]
IdleDb == [ver |-> "a", ready |-> FALSE, connecting |-> 0, loops |-> <<>>,
           last |-> NoCall, n |-> 0]

\* the products of the seeding script, prices in hundredths
DemoProducts ==
    {[slug |-> "fashion-bag-for-ladies", title |-> "Fashion bag for ladies", price |-> 113],
     [slug |-> "wireless-earbuds", title |-> "Wireless Earbuds", price |-> 1500]}

\* body of an administrative update: an absent field is <<>>, a string s is <<s>>
NoBody == [status |-> <<>>, paymentStatus |-> <<>>, note |-> FALSE]

IdleAdm ==
    [route |-> "none", pc |-> "idle", auth |-> FALSE, id |-> 0, body |-> NoBody,
     k |-> 0, written |-> FALSE, changed |-> {}, att |-> {}, sent |-> 0, fails |-> {},
     resp |-> [status |-> 0, ok |-> FALSE, order |-> <<>>], n |-> 0]
NoObs ==
    [route |-> "none", kind |-> "none", ref |-> "", phone |-> NoQ, email |-> NoQ,
     status |-> 0, data |-> 0, bytes |-> FALSE]

Init ==
    /\ conn = FALSE
    /\ cfg \in Configs
    /\ orders = <<>>
    /\ rorders = <<>>
    /\ rq = IdleRq
    /\ obs = NoObs
    /\ nreq = 0
    /\ adm = IdleAdm
    /\ catalog = DemoProducts
    /\ db = IdleDb
    /\ cl = IdleCl

-----------------------------------------------------------------------------
(* mongoose connection events of the notifier *)

MongoConnected ==
    /\ ~conn
    /\ conn' = TRUE
    /\ UNCHANGED <<cfg, cl, db, catalog, orders, rorders, rq, obs, nreq, adm>>

MongoDisconnected ==
    /\ conn
    /\ conn' = FALSE
    /\ UNCHANGED <<cfg, cl, db, catalog, orders, rorders, rq, obs, nreq, adm>>

-----------------------------------------------------------------------------
(* POST /api/orders on either server: a request arrives *)

Receive(route, p) ==
    /\ rq.pc \in {"idle", "done"}
    /\ nreq' = nreq + 1
    /\ rq' = [IdleRq EXCEPT !.route = route, !.pc = "recv", !.p = p]
    /\ UNCHANGED <<conn, cfg, cl, db, catalog, orders, rorders, obs, adm>>

-----------------------------------------------------------------------------
(* Notifier: handleCreateOrder, one action per await *)

AtNotifier(pc) == rq.route = "notifier" /\ rq.pc = pc

\* the catch of handleCreateOrder: res.status(400).json({ok:false, error})
Respond400 == [status |-> 400, ok |-> FALSE, ref |-> "", id |-> 0]

\* a handler that reads the order without checking it
ParseOrder_NoCheck ==
    /\ AtNotifier("recv")
    /\ \E r \in (IF rq.p.id # "" THEN {rq.p.id} ELSE RefGen) :
           rq' = [rq EXCEPT !.pc = "upload", !.valid = TRUE, !.ref = r,
                            !.totals = NotifierTotals(rq.p)]
    /\ UNCHANGED <<conn, cfg, cl, db, catalog, orders, rorders, obs, nreq, adm>>

\* parse, reference and totals
ParseOrder ==
    /\ AtNotifier("recv")
    /\ IF ~IncomingOrderSchema(rq.p)
       THEN rq' = [rq EXCEPT !.pc = "done", !.resp = Respond400]
       ELSE \E r \in (IF rq.p.id # "" THEN {rq.p.id} ELSE RefGen) :
                rq' = [rq EXCEPT !.pc = "upload", !.valid = TRUE, !.ref = r,
                                 !.totals = NotifierTotals(rq.p)]
    /\ UNCHANGED <<conn, cfg, cl, db, catalog, orders, rorders, obs, nreq, adm>>

\* uploadProofToCloudinary inside its own try/catch
UploadProof ==
    /\ AtNotifier("upload")
    /\ IF rq.p.proof /\ cfg.cloud
       THEN \E out \in {"ok", "throw", "hang"} :
                rq' = CASE out = "ok"    -> [rq EXCEPT !.pc = "save", !.proofUrl = TRUE]
                        [] out = "throw" -> [rq EXCEPT !.pc = "save",
                                                       !.fails = @ \cup {"upload"}]
                        [] OTHER         -> [rq EXCEPT !.pc = "hung"]
       ELSE rq' = [rq EXCEPT !.pc = "save"]
    /\ UNCHANGED <<conn, cfg, cl, db, catalog, orders, rorders, obs, nreq, adm>>

\* the document Order.create stores through the inline OrderSchema
NotifierDocOf(id, ref, p, totals, proofUrl) ==
    [id            |-> id,
     ref           |-> ref,
     info          |-> [name         |-> p.name,
                        phone        |-> p.phone,
                        email        |-> p.email,
                        address      |-> p.address,
                        deliveryZone |-> p.deliveryZone,
                        deliveryFee  |-> totals.deliveryFee,
                        subtotal     |-> totals.subtotal,
                        grandTotal   |-> totals.grandTotal],
     items         |-> p.items,
     proofUrl      |-> proofUrl,
     paymentStatus |-> "Pending",
     status        |-> "New"]

NotifierDoc == NotifierDocOf(Len(orders) + 1, rq.ref, rq.p, rq.totals, rq.proofUrl)

\* a save that replaces the stored order of the same reference
SaveOrder_Upsert ==
    /\ AtNotifier("save")
    /\ IF conn
       THEN \E hits \in {{i \in 1..Len(orders) : orders[i].ref = rq.ref}} :
                IF hits = {}
                THEN /\ orders' = Append(orders, NotifierDoc)
                     /\ rq' = [rq EXCEPT !.pc = "pdf", !.saved = <<NotifierDoc>>]
                ELSE /\ orders' = [i \in 1..Len(orders) |->
                                      IF i \in hits THEN [NotifierDoc EXCEPT !.id = i]
                                      ELSE orders[i]]
                     /\ rq' = [rq EXCEPT !.pc = "pdf", !.saved = <<NotifierDoc>>]
       ELSE /\ rq' = [rq EXCEPT !.pc = "pdf"]
            /\ UNCHANGED orders
    /\ UNCHANGED <<conn, cfg, cl, db, catalog, rorders, obs, nreq, adm>>

\* Order.create when connected; it is not inside a try/catch of its own
SaveOrder ==
    /\ AtNotifier("save")
    /\ IF conn
       THEN \E out \in {"ok", "throw", "hang"} :
                CASE out = "ok" ->
                       /\ orders' = Append(orders, NotifierDoc)
                       /\ rq' = [rq EXCEPT !.pc = "pdf", !.saved = <<NotifierDoc>>]
                  [] out = "throw" ->
                       /\ rq' = [rq EXCEPT !.pc = "done", !.resp = Respond400,
                                           !.fails = @ \cup {"save"}]
                       /\ UNCHANGED orders
                  [] OTHER ->
                       /\ rq' = [rq EXCEPT !.pc = "hung"]
                       /\ UNCHANGED orders
       ELSE /\ rq' = [rq EXCEPT !.pc = "pdf"]
            /\ UNCHANGED orders
    /\ UNCHANGED <<conn, cfg, cl, db, catalog, rorders, obs, nreq, adm>>

\* orderForPdf: the saved document, or the in-memory draft
orderForPdf ==
    IF rq.saved # <<>> THEN rq.saved[1].info
    ELSE [deliveryFee |-> rq.totals.deliveryFee, subtotal |-> rq.totals.subtotal,
          grandTotal |-> rq.totals.grandTotal]

\* try { pdfBuf = await buildInvoicePdf(orderForPdf) } catch {}
BuildPdf ==
    /\ AtNotifier("pdf")
    /\ \E out \in {"ok", "throw"} :
           rq' = IF out = "ok"
                 THEN [rq EXCEPT !.pc = "adminEmail", !.pdfBuf = TRUE,
                                 !.pdf = <<[subtotal    |-> orderForPdf.subtotal,
                                            deliveryFee |-> orderForPdf.deliveryFee,
                                            grandTotal  |-> orderForPdf.grandTotal]>>]
                 ELSE [rq EXCEPT !.pc = "adminEmail", !.fails = @ \cup {"pdf"}]
    /\ UNCHANGED <<conn, cfg, cl, db, catalog, orders, rorders, obs, nreq, adm>>

\* mailer.sendMail without a try/catch of its own: a rejection reaches the
\* catch of handleCreateOrder
SendMail_NoCatch(ch, next) ==
    \E out \in {"ok", "throw", "hang"} :
        rq' = CASE out = "ok"    -> [rq EXCEPT !.pc = next, !.att = @ \cup {ch},
                                               !.cnt[ch] = @ + 1, !.dlv[ch] = @ + 1,
                                               !.notified = <<rq.totals>>,
                                               !.blk = <<[kind |-> "mail", out |-> "ok"]>>]
                [] out = "throw" -> [rq EXCEPT !.pc = "done", !.att = @ \cup {ch},
                                               !.cnt[ch] = @ + 1,
                                               !.notified = <<rq.totals>>,
                                               !.fails = @ \cup {ch},
                                               !.resp = Respond400]
                [] OTHER         -> [rq EXCEPT !.pc = "hung", !.att = @ \cup {ch},
                                               !.cnt[ch] = @ + 1]

\* one mailer.sendMail inside its own try/catch; the charges block of the
\* message is built from the local subtotal, deliveryFee and grandTotal
SendMail(ch, next) ==
    \E out \in {"ok", "throw", "hang"} :
        rq' = CASE out = "ok"    -> [rq EXCEPT !.pc = next, !.att = @ \cup {ch},
                                               !.cnt[ch] = @ + 1, !.dlv[ch] = @ + 1,
                                               !.notified = <<rq.totals>>,
                                               !.blk = <<[kind |-> "mail", out |-> "ok"]>>]
                [] out = "throw" -> [rq EXCEPT !.pc = next, !.att = @ \cup {ch},
                                               !.cnt[ch] = @ + 1,
                                               !.notified = <<rq.totals>>,
                                               !.fails = @ \cup {ch},
                                               !.blk = <<[kind |-> "mail", out |-> "throw"]>>]
                [] OTHER         -> [rq EXCEPT !.pc = "hung", !.att = @ \cup {ch},
                                               !.cnt[ch] = @ + 1]

EmailAdmin ==
    /\ AtNotifier("adminEmail")
    /\ SendMail("adminEmail", "custEmail")
    /\ UNCHANGED <<conn, cfg, cl, db, catalog, orders, rorders, obs, nreq, adm>>

EmailCustomer ==
    /\ AtNotifier("custEmail")
    /\ IF rq.p.email # <<>>
       THEN SendMail("custEmail", "adminWA")
       ELSE rq' = [rq EXCEPT !.pc = "adminWA", !.blk = <<>>]
    /\ UNCHANGED <<conn, cfg, cl, db, catalog, orders, rorders, obs, nreq, adm>>

\* the outcomes of one fetch to the WhatsApp API
FetchOut == {"ok", "non2xx", "throw", "hang"}

\* a WhatsApp block that sends the text message after the template as well
WhatsAppCalls_AlwaysText(tOut, xOut) ==
    LET tmplCall == IF cfg.tmpl /\ cfg.wa THEN <<[kind |-> "template", out |-> tOut]>> ELSE <<>>
        tmplEnds == cfg.tmpl /\ cfg.wa /\ tOut \in {"throw", "hang"}
        textCall == IF ~tmplEnds /\ cfg.wa
                    THEN <<[kind |-> "text", out |-> xOut]>> ELSE <<>>
    IN  tmplCall \o textCall

\* sendWhatsAppTemplate then sendWhatsAppText inside one try/catch:
\* the sequence of fetches of the block, given the outcomes tOut and xOut
WhatsAppCalls(tOut, xOut) ==
    LET tmplCall == IF cfg.tmpl /\ cfg.wa THEN <<[kind |-> "template", out |-> tOut]>> ELSE <<>>
        ok       == cfg.tmpl /\ cfg.wa /\ tOut = "ok"
        tmplEnds == cfg.tmpl /\ cfg.wa /\ tOut \in {"throw", "hang"}
        textCall == IF ~ok /\ ~tmplEnds /\ cfg.wa
                    THEN <<[kind |-> "text", out |-> xOut]>> ELSE <<>>
    IN  tmplCall \o textCall

\* number of messages the WhatsApp API accepted among the fetches of a block
Delivered(calls) == Cardinality({i \in 1..Len(calls) : calls[i].out = "ok"})

WhatsApp(ch, next) ==
    \E tOut \in FetchOut, xOut \in FetchOut :
    \E calls \in {WhatsAppCalls(tOut, xOut)} :
    \E last \in {IF calls = <<>> THEN "none" ELSE calls[Len(calls)].out} :
        rq' = IF last = "hang"
              THEN [rq EXCEPT !.pc = "hung", !.att = @ \cup {ch}, !.blk = calls,
                              !.cnt[ch] = @ + 1, !.dlv[ch] = @ + Delivered(calls)]
              ELSE [rq EXCEPT !.pc = next, !.att = @ \cup {ch}, !.blk = calls,
                              !.cnt[ch] = @ + 1, !.dlv[ch] = @ + Delivered(calls),
                              !.fails = IF last \in {"non2xx", "throw"}
                                        THEN @ \cup {ch} ELSE @]

WhatsAppAdmin ==
    /\ AtNotifier("adminWA")
    /\ WhatsApp("adminWA", "custWA")
    /\ UNCHANGED <<conn, cfg, cl, db, catalog, orders, rorders, obs, nreq, adm>>

\* the customer WhatsApp block guarded by `if (phone)` alone
WhatsAppCustomer_NoRegex ==
    /\ AtNotifier("custWA")
    /\ IF rq.p.phone # <<>>
       THEN WhatsApp("custWA", "respond")
       ELSE rq' = [rq EXCEPT !.pc = "respond", !.blk = <<>>]
    /\ UNCHANGED <<conn, cfg, cl, db, catalog, orders, rorders, obs, nreq, adm>>

WhatsAppCustomer ==
    /\ AtNotifier("custWA")
    /\ IF rq.p.phone # <<>> /\ IsE164(rq.p.phone)
       THEN WhatsApp("custWA", "respond")
       ELSE rq' = [rq EXCEPT !.pc = "respond", !.blk = <<>>]
    /\ UNCHANGED <<conn, cfg, cl, db, catalog, orders, rorders, obs, nreq, adm>>

\* a response that always carries an id
RespondOk_AlwaysId ==
    /\ AtNotifier("respond")
    /\ rq' = [rq EXCEPT !.pc = "done",
                        !.resp = [status |-> 200, ok |-> TRUE, ref |-> rq.ref,
                                  id |-> Len(orders) + 1]]
    /\ UNCHANGED <<conn, cfg, cl, db, catalog, orders, rorders, obs, nreq, adm>>

\* res.json({ ok: true, ref, id: saved?._id || null, proofUrl })
RespondOk ==
    /\ AtNotifier("respond")
    /\ rq' = [rq EXCEPT !.pc = "done",
                        !.resp = [status |-> 200, ok |-> TRUE, ref |-> rq.ref,
                                  id |-> IF rq.saved # <<>> THEN rq.saved[1].id ELSE 0]]
    /\ UNCHANGED <<conn, cfg, cl, db, catalog, orders, rorders, obs, nreq, adm>>

-----------------------------------------------------------------------------
(* Router: POST /api/orders (parse, normalise, Order.create, respond) *)

RouterCreate ==
    /\ rq.route = "router"
    /\ rq.pc = "recv"
    /\ IF ~(IF rq.p.shape = "front" THEN FrontOrderSchema(rq.p) ELSE FlatOrderSchema(rq.p))
       THEN /\ rq' = [rq EXCEPT !.pc = "done", !.resp = Respond400]
            /\ UNCHANGED rorders
       ELSE \E r \in RefGen :
            \E normalized \in {IF rq.p.shape = "front"
                                THEN toDbOrderFromFront(FrontParsed(rq.p))
                                ELSE toDbOrderFromFlat(rq.p)} :
            \E doc \in {OrderDoc([ref |-> r, items |-> normalized.items,
                                   subtotal |-> normalized.subtotal,
                                   deliveryZone |-> normalized.deliveryZone,
                                   deliveryFee |-> normalized.deliveryFee,
                                   grandTotal |-> normalized.grandTotal,
                                   info |-> normalized.info,
                                   status |-> "New", paymentStatus |-> "Pending"],
                                  Len(rorders) + 1)} :
            \E t \in {[subtotal |-> normalized.subtotal,
                        deliveryFee |-> normalized.deliveryFee,
                        grandTotal |-> normalized.grandTotal]} :
                IF orderSchema(doc, rorders)
                THEN /\ rorders' = Append(rorders, doc)
                     /\ rq' = [rq EXCEPT !.pc = "done", !.valid = TRUE,
                                         !.ref = doc.ref,
                                         !.totals = t, !.saved = <<doc>>,
                                         !.resp = [status |-> 200, ok |-> TRUE,
                                                   ref |-> doc.ref, id |-> doc.id]]
                ELSE /\ rq' = [rq EXCEPT !.pc = "done", !.valid = TRUE,
                                         !.ref = r, !.totals = t,
                                         !.fails = {"save"},
                                         !.resp = [status |-> 500, ok |-> FALSE,
                                                   ref |-> "", id |-> 0]]
                     /\ UNCHANGED rorders
    /\ UNCHANGED <<conn, cfg, cl, db, catalog, orders, obs, nreq, adm>>

-----------------------------------------------------------------------------
(* GET /api/orders/track *)

\* a query-string value as express (qs) parses it: absent, a string, or an
\* object such as phone[$ne]=x
Eq(v) == [op |-> "eq", v |-> v]
Ne(v) == [op |-> "ne", v |-> v]

QueryRefs   == {"", "LWG-AAAAAA", "lwg-bbbbbb"}
QueryPhones == {NoQ, Eq(PhoneE164), Ne(PhoneShort)}
QueryEmails == {NoQ, Eq(EmailUpper)}

\* JavaScript truthiness of a query value
Truthy(q) == q.op = "ne" \/ (q.op = "eq" /\ q.v # <<>>)

\* String(value): an object prints as "[object Object]"
StringOf(q) ==
    CASE q.op = "eq" -> q.v
      [] q.op = "ne" -> <<"[", "o", "b", "j", "e", "c", "t", " ", "O", "]">>
      [] OTHER       -> <<>>

\* a filter entry { path: value } of Order.findOne against a stored string
FilterMatch(stored, q) ==
    IF q.op = "ne" THEN stored # q.v ELSE stored = q.v

\* findOne: the first of the matching documents (hits: their indexes), or 0
FindOne(hits) ==
    IF hits = {} THEN 0
    ELSE CHOOSE k \in hits : \A j \in hits : k <= j

\* notifier: app.get('/api/orders/track')
TrackStatus(ref, phone, email) ==
    LET Test(o) == /\ o.ref = ref
                   /\ (Truthy(phone) => FilterMatch(o.info.phone, phone))
                   /\ (Truthy(email) => FilterMatch(o.info.email, email))
        k == FindOne({i \in 1..Len(orders) : Test(orders[i])})
    IN  IF ref = "" \/ (~Truthy(phone) /\ ~Truthy(email))
        THEN [status |-> 400, data |-> 0]
        ELSE IF ~conn THEN [status |-> 503, data |-> 0]
        ELSE IF k = 0 THEN [status |-> 404, data |-> 0]
        ELSE [status |-> 200, data |-> k]

Track(ref, phone, email) ==
    /\ obs' = [route |-> "notifier", kind |-> "track", ref |-> ref, phone |-> phone,
               email |-> email,
               status |-> TrackStatus(ref, phone, email).status,
               data |-> TrackStatus(ref, phone, email).data, bytes |-> FALSE]
    /\ UNCHANGED <<conn, cfg, cl, db, catalog, orders, rorders, rq, nreq, adm>>

\* router: router.get('/track')
RouterTrackStatus(qref, qphone, qemail) ==
    LET ref   == ToUpperRef(qref)
        email == ToLowerCase(Trim(StringOf(qemail)))
        phone == normalizePhone(Trim(StringOf(qphone)))
        ByRef(o) == o.ref = ref
        k == FindOne({i \in 1..Len(rorders) : ByRef(rorders[i])})
        matchEmail == /\ email # <<>>
                      /\ rorders[k].info.email # <<>>
                      /\ ToLowerCase(rorders[k].info.email) = email
        matchPhone == /\ phone # <<>>
                      /\ rorders[k].info.phone # <<>>
                      /\ normalizePhone(rorders[k].info.phone) = phone
    IN  IF ref = "" THEN [status |-> 400, data |-> 0]
        ELSE IF email = <<>> /\ phone = <<>> THEN [status |-> 400, data |-> 0]
        ELSE IF k = 0 THEN [status |-> 404, data |-> 0]
        ELSE IF ~matchEmail /\ ~matchPhone THEN [status |-> 404, data |-> 0]
        ELSE [status |-> 200, data |-> k]

RouterTrack(ref, phone, email) ==
    /\ obs' = [route |-> "router", kind |-> "track", ref |-> ref, phone |-> phone,
               email |-> email,
               status |-> RouterTrackStatus(ref, phone, email).status,
               data |-> RouterTrackStatus(ref, phone, email).data, bytes |-> FALSE]
    /\ UNCHANGED <<conn, cfg, cl, db, catalog, orders, rorders, rq, nreq, adm>>

-----------------------------------------------------------------------------
(* GET /api/orders/receipt.pdf *)

\* the orders of a collection other than those of one reference
WithoutRef(coll, ref) == SelectSeq(coll, LAMBDA o : o.ref # ref)

\* notifier: status and error text of app.get('/api/orders/track') over a
\* collection
TrackBody(coll, ref, phone, email) ==
    LET hits == {i \in 1..Len(coll) :
                    /\ coll[i].ref = ref
                    /\ (Truthy(phone) => FilterMatch(coll[i].info.phone, phone))
                    /\ (Truthy(email) => FilterMatch(coll[i].info.email, email))}
    IN  IF ref = "" \/ (~Truthy(phone) /\ ~Truthy(email))
        THEN [status |-> 400, error |-> "Provide ref and phone or email"]
        ELSE IF ~conn THEN [status |-> 503, error |-> "Orders database unavailable"]
        ELSE IF hits = {} THEN [status |-> 404, error |-> "Order not found"]
        ELSE [status |-> 200, error |-> ""]

\* router: status and error text of router.get('/track') over a collection
RouterTrackBody(coll, qref, qphone, qemail) ==
    LET ref   == ToUpperRef(qref)
        email == ToLowerCase(Trim(StringOf(qemail)))
        phone == normalizePhone(Trim(StringOf(qphone)))
        hits  == {i \in 1..Len(coll) : coll[i].ref = ref}
        k     == FindOne(hits)
        matchEmail == /\ email # <<>>
                      /\ coll[k].info.email # <<>>
                      /\ ToLowerCase(coll[k].info.email) = email
        matchPhone == /\ phone # <<>>
                      /\ coll[k].info.phone # <<>>
                      /\ normalizePhone(coll[k].info.phone) = phone
    IN  IF ref = "" THEN [status |-> 400, error |-> "Missing ref"]
        ELSE IF email = <<>> /\ phone = <<>>
        THEN [status |-> 400, error |-> "Provide phone or email"]
        ELSE IF k = 0 THEN [status |-> 404, error |-> "Order not found"]
        ELSE IF ~matchEmail /\ ~matchPhone
        THEN [status |-> 404, error |-> "No order matches that contact"]
        ELSE [status |-> 200, error |-> ""]

\* outcomes of rendering the receipt: rendered, an exception before the first
\* byte, an exception after bytes were written (router only: the PDF is piped)
RenderOut == {"ok", "throw", "late"}

\* app.get('/api/orders/receipt.pdf') answering whatever the order matches
ReceiptStatus_RefOnly(ref, phone, email, render) ==
    LET k == FindOne({i \in 1..Len(orders) : orders[i].ref = ref})
    IN  IF ref = "" THEN [status |-> 400, data |-> 0, bytes |-> FALSE]
        ELSE IF ~conn THEN [status |-> 503, data |-> 0, bytes |-> FALSE]
        ELSE IF k = 0 THEN [status |-> 404, data |-> 0, bytes |-> FALSE]
        ELSE IF render # "ok" THEN [status |-> 500, data |-> 0, bytes |-> FALSE]
        ELSE [status |-> 200, data |-> k, bytes |-> TRUE]

\* notifier: app.get('/api/orders/receipt.pdf'); buildInvoicePdf resolves with
\* the whole buffer or rejects
ReceiptStatus(ref, phone, email, render) ==
    LET Test(o) == /\ o.ref = ref
                   /\ (Truthy(phone) => FilterMatch(o.info.phone, phone))
                   /\ (Truthy(email) => FilterMatch(o.info.email, email))
        k == FindOne({i \in 1..Len(orders) : Test(orders[i])})
    IN  IF ref = "" \/ (~Truthy(phone) /\ ~Truthy(email))
        THEN [status |-> 400, data |-> 0, bytes |-> FALSE]
        ELSE IF ~conn THEN [status |-> 503, data |-> 0, bytes |-> FALSE]
        ELSE IF k = 0 THEN [status |-> 404, data |-> 0, bytes |-> FALSE]
        ELSE IF render # "ok" THEN [status |-> 500, data |-> 0, bytes |-> FALSE]
        ELSE [status |-> 200, data |-> k, bytes |-> TRUE]

Receipt(ref, phone, email, render) ==
    /\ \E r \in {ReceiptStatus(ref, phone, email, render)} :
           obs' = [route |-> "notifier", kind |-> "receipt", ref |-> ref,
                   phone |-> phone, email |-> email,
                   status |-> r.status, data |-> r.data, bytes |-> r.bytes]
    /\ UNCHANGED <<conn, cfg, cl, db, catalog, orders, rorders, rq, nreq, adm>>

\* router: router.get('/receipt.pdf'); the document is piped to the response,
\* so an exception after the first byte ends a 200 response early
RouterReceiptStatus(qref, qphone, qemail, render) ==
    LET ref   == ToUpperRef(qref)
        email == ToLowerCase(Trim(StringOf(qemail)))
        phone == normalizePhone(Trim(StringOf(qphone)))
        k == FindOne({i \in 1..Len(rorders) : rorders[i].ref = ref})
        matchEmail == /\ email # <<>>
                      /\ rorders[k].info.email # <<>>
                      /\ ToLowerCase(rorders[k].info.email) = email
        matchPhone == /\ phone # <<>>
                      /\ rorders[k].info.phone # <<>>
                      /\ normalizePhone(rorders[k].info.phone) = phone
    IN  IF ref = "" THEN [status |-> 400, data |-> 0, bytes |-> FALSE]
        ELSE IF email = <<>> /\ phone = <<>> THEN [status |-> 400, data |-> 0, bytes |-> FALSE]
        ELSE IF k = 0 THEN [status |-> 404, data |-> 0, bytes |-> FALSE]
        ELSE IF ~matchEmail /\ ~matchPhone THEN [status |-> 404, data |-> 0, bytes |-> FALSE]
        ELSE IF render = "throw" THEN [status |-> 500, data |-> 0, bytes |-> FALSE]
        ELSE [status |-> 200, data |-> k, bytes |-> TRUE]

RouterReceipt(ref, phone, email, render) ==
    /\ \E r \in {RouterReceiptStatus(ref, phone, email, render)} :
           obs' = [route |-> "router", kind |-> "receipt", ref |-> ref,
                   phone |-> phone, email |-> email,
                   status |-> r.status, data |-> r.data, bytes |-> r.bytes]
    /\ UNCHANGED <<conn, cfg, cl, db, catalog, orders, rorders, rq, nreq, adm>>

-----------------------------------------------------------------------------
(* db.js: connectDB *)

\* the maxRetries option of a call; 5 is the default
RetryOptions == {1, 5}

\* the async function assigned to `connecting`, before its first await
NewLoop(pc, maxRetries) ==
    [pc |-> pc, attempt |-> 0, tries |-> 0, max |-> maxRetries, fin |-> FALSE]

\* connectDB that starts a connection loop whatever `connecting` holds
ConnectDB_NoLatch(uri, maxRetries) ==
    /\ db' = IF ~uri
             THEN [db EXCEPT !.n = @ + 1, !.last = [kind |-> "throw", loop |-> 0]]
             ELSE [db EXCEPT !.n = @ + 1,
                             !.loops = Append(@, NewLoop("connect", maxRetries)),
                             !.connecting = Len(db.loops) + 1,
                             !.last = [kind |-> "start", loop |-> Len(db.loops) + 1]]
    /\ UNCHANGED <<conn, cfg, cl, catalog, orders, rorders, rq, obs, nreq, adm>>

\* connectDB(uri, { maxRetries }) up to its first await: the check of the uri,
\* the latch, the readyState (copy "a": before the latch is set, copy "b":
\* inside the loop function) and the assignment of `connecting`
ConnectDB(uri, maxRetries) ==
    /\ db' = IF ~uri
             THEN [db EXCEPT !.n = @ + 1, !.last = [kind |-> "throw", loop |-> 0]]
             ELSE IF db.connecting # 0
             THEN [db EXCEPT !.n = @ + 1,
                             !.last = [kind |-> "join", loop |-> db.connecting]]
             ELSE IF db.ver = "a" /\ db.ready
             THEN [db EXCEPT !.n = @ + 1, !.last = [kind |-> "ready", loop |-> 0]]
             ELSE [db EXCEPT !.n = @ + 1,
                             !.loops = Append(@, NewLoop(IF db.ready THEN "resolved"
                                                         ELSE "connect", maxRetries)),
                             !.connecting = Len(db.loops) + 1,
                             !.last = [kind |-> "start", loop |-> Len(db.loops) + 1]]
    /\ UNCHANGED <<conn, cfg, cl, catalog, orders, rorders, rq, obs, nreq, adm>>

\* the retry limit of the catch block: copy "a" stops when attempt >=
\* maxRetries, copy "b" when attempt > maxRetries
Exhausted(ver, attempt, maxRetries) ==
    IF ver = "a" THEN attempt >= maxRetries ELSE attempt > maxRetries

\* one pass of the while loop: await mongoose.connect, return or catch
Attempt(i) ==
    /\ i \in 1..Len(db.loops)
    /\ db.loops[i].pc = "connect"
    /\ \E out \in {"ok", "throw"} :
           db' = IF out = "ok"
                 THEN [db EXCEPT !.ready = TRUE,
                                 !.loops[i].pc = "resolved",
                                 !.loops[i].tries = @ + 1]
                 ELSE [db EXCEPT !.loops[i].tries = @ + 1,
                                 !.loops[i].attempt = @ + 1,
                                 !.loops[i].pc =
                                     IF Exhausted(db.ver, db.loops[i].attempt + 1,
                                                  db.loops[i].max)
                                     THEN "rejected" ELSE "backoff"]
    /\ UNCHANGED <<conn, cfg, cl, catalog, orders, rorders, rq, obs, nreq, adm>>

\* await new Promise(r => setTimeout(r, delay)): the timer fires
Backoff(i) ==
    /\ i \in 1..Len(db.loops)
    /\ db.loops[i].pc = "backoff"
    /\ db' = [db EXCEPT !.loops[i].pc = "connect"]
    /\ UNCHANGED <<conn, cfg, cl, catalog, orders, rorders, rq, obs, nreq, adm>>

\* try { return await connecting } finally { connecting = null } of the call
\* that started loop i, once the loop has settled
Finally(i) ==
    /\ i \in 1..Len(db.loops)
    /\ db.loops[i].pc \in {"resolved", "rejected"}
    /\ ~db.loops[i].fin
    /\ db' = [db EXCEPT !.loops[i].fin = TRUE, !.connecting = 0]
    /\ UNCHANGED <<conn, cfg, cl, catalog, orders, rorders, rq, obs, nreq, adm>>

\* the 'disconnected' event of mongoose.connection
DbDisconnected ==
    /\ db.ready
    /\ db' = [db EXCEPT !.ready = FALSE]
    /\ UNCHANGED <<conn, cfg, cl, catalog, orders, rorders, rq, obs, nreq, adm>>

-----------------------------------------------------------------------------
(* Product catalog: the seeding script *)

\* Product.deleteMany({}) then Product.insertMany([...]); an error after the
\* first call leaves the collection empty
Seed ==
    /\ catalog' \in {{}, DemoProducts} \ {catalog}
    /\ UNCHANGED <<conn, cfg, cl, db, orders, rorders, rq, obs, nreq, adm>>

-----------------------------------------------------------------------------
(* Administrative updates *)

\* the allowlists of the admin router's PATCH
ALLOWED_PSTATUS == {"Pending", "Paid", "Failed"}

\* request bodies: status and paymentStatus absent, one of the enum values,
\* an empty string or another string
StatusInputs == {<<>>} \cup {<<v>> : v \in ALLOWED_STATUSES \cup {"", "Banana"}}
PStatusInputs == {<<>>} \cup {<<v>> : v \in PAYMENT_STATES \cup {"Banana"}}
AdminBodies ==
    {[NoBody EXCEPT !.status = v] : v \in StatusInputs}
      \cup {[NoBody EXCEPT !.paymentStatus = v] : v \in PStatusInputs}
      \cup {[status |-> <<"Shipped">>, paymentStatus |-> <<"Paid">>, note |-> TRUE]}

\* :id of the request: 0 is a string that is not an ObjectId, 2 an unknown id
AdminIds == {0, 1, 2}

\* requests: every body for the stored order, one body for the other ids and
\* for a request without the admin token
AdminInputs ==
    [auth : {TRUE}, id : {1}, body : AdminBodies]
      \cup [auth : BOOLEAN, id : AdminIds,
            body : {[status |-> <<"Shipped">>, paymentStatus |-> <<"Paid">>, note |-> TRUE]}]

AdminReceive(route, auth, id, body) ==
    /\ adm.pc \in {"idle", "done"}
    /\ adm' = [IdleAdm EXCEPT !.route = route, !.pc = "recv", !.auth = auth,
                              !.id = id, !.body = body, !.n = adm.n + 1]
    /\ UNCHANGED <<conn, cfg, cl, db, catalog, orders, rorders, rq, obs, nreq>>

AdmResp(status, order) == [status |-> status, ok |-> status = 200, order |-> order]

\* Model.findById on a collection: the index of the document, or 0
FindById(coll, id) == IF id \in 1..Len(coll) THEN id ELSE 0

\* outcomes of findByIdAndUpdate: a malformed id is a CastError, a lost
\* connection an error; otherwise the command runs or the driver throws
UpdateOutcomes(connected, id) ==
    IF id = 0 \/ ~connected THEN {"throw"} ELSE {"ok", "throw"}

\* the notifier's PATCH emailing the customer before the store is written
AdminPatch_MailFirst ==
    /\ adm.route = "notifier"
    /\ adm.pc = "recv"
    /\ IF ~adm.auth
       THEN adm' = [adm EXCEPT !.pc = "done", !.resp = AdmResp(401, <<>>)]
       ELSE \E k \in {FindById(orders, adm.id)} :
                IF k = 0
                THEN adm' = [adm EXCEPT !.pc = "done", !.resp = AdmResp(404, <<>>)]
                ELSE adm' = [adm EXCEPT !.pc = "email", !.k = k,
                                        !.changed = {"status"},
                                        !.resp = AdmResp(0, <<orders[k]>>)]
    /\ UNCHANGED <<conn, cfg, cl, db, catalog, orders, rorders, rq, obs, nreq>>

\* notifier: requireAdmin, then app.patch('/api/admin/orders/:id') up to the
\* store write
AdminPatch ==
    /\ adm.route = "notifier"
    /\ adm.pc = "recv"
    /\ IF ~adm.auth
       THEN /\ adm' = [adm EXCEPT !.pc = "done", !.resp = AdmResp(401, <<>>)]
            /\ UNCHANGED orders
       ELSE \E out \in UpdateOutcomes(conn, adm.id) :
            \E k \in {FindById(orders, adm.id)} :
            \E changed \in {{f \in {"status", "paymentStatus"} : adm.body[f] # <<>>}} :
                IF out = "throw"
                THEN /\ adm' = [adm EXCEPT !.pc = "done", !.resp = AdmResp(500, <<>>)]
                     /\ UNCHANGED orders
                ELSE IF k = 0
                THEN /\ adm' = [adm EXCEPT !.pc = "done", !.resp = AdmResp(404, <<>>)]
                     /\ UNCHANGED orders
                ELSE /\ orders' = [orders EXCEPT
                            ![k].status = IF "status" \in changed
                                          THEN adm.body.status[1] ELSE @,
                            ![k].paymentStatus = IF "paymentStatus" \in changed
                                                 THEN adm.body.paymentStatus[1] ELSE @]
                     /\ adm' = [adm EXCEPT
                            !.pc = IF orders[k].info.email # <<>> /\ changed # {}
                                   THEN "email" ELSE "respond",
                            !.k = k, !.written = TRUE, !.changed = changed,
                            !.resp = AdmResp(0, <<orders'[k]>>)]
    /\ UNCHANGED <<conn, cfg, cl, db, catalog, rorders, rq, obs, nreq>>

\* buildInvoicePdf and mailer.sendMail of the notifier's PATCH without the
\* try/catch around them
AdminMail_NoCatch ==
    /\ adm.route = "notifier"
    /\ adm.pc = "email"
    /\ \E pdfOut \in {"ok", "throw"}, mailOut \in {"ok", "throw", "hang"} :
        adm' = CASE pdfOut = "throw" ->
                      [adm EXCEPT !.pc = "done", !.att = @ \cup {"pdf"},
                                  !.fails = @ \cup {"pdf"}, !.resp = AdmResp(500, <<>>)]
                 [] pdfOut = "ok" /\ mailOut = "ok" ->
                      [adm EXCEPT !.pc = "respond", !.att = @ \cup {"pdf", "mail"},
                                  !.sent = @ + 1]
                 [] pdfOut = "ok" /\ mailOut = "throw" ->
                      [adm EXCEPT !.pc = "done", !.att = @ \cup {"pdf", "mail"},
                                  !.sent = @ + 1, !.fails = @ \cup {"mail"},
                                  !.resp = AdmResp(500, <<>>)]
                 [] OTHER ->
                      [adm EXCEPT !.pc = "hung", !.att = @ \cup {"pdf", "mail"},
                                  !.sent = @ + 1]
    /\ UNCHANGED <<conn, cfg, cl, db, catalog, orders, rorders, rq, obs, nreq>>

\* notifier: buildInvoicePdf and mailer.sendMail inside one try/catch
AdminMail ==
    /\ adm.route = "notifier"
    /\ adm.pc = "email"
    /\ \E pdfOut \in {"ok", "throw"}, mailOut \in {"ok", "throw", "hang"} :
        adm' = CASE pdfOut = "throw" ->
                      [adm EXCEPT !.pc = "respond", !.att = @ \cup {"pdf"},
                                  !.fails = @ \cup {"pdf"}]
                 [] pdfOut = "ok" /\ mailOut = "ok" ->
                      [adm EXCEPT !.pc = "respond", !.att = @ \cup {"pdf", "mail"},
                                  !.sent = @ + 1]
                 [] pdfOut = "ok" /\ mailOut = "throw" ->
                      [adm EXCEPT !.pc = "respond", !.att = @ \cup {"pdf", "mail"},
                                  !.sent = @ + 1, !.fails = @ \cup {"mail"}]
                 [] OTHER ->
                      [adm EXCEPT !.pc = "hung", !.att = @ \cup {"pdf", "mail"},
                                  !.sent = @ + 1]
    /\ UNCHANGED <<conn, cfg, cl, db, catalog, orders, rorders, rq, obs, nreq>>

\* notifier: res.json({ ok: true, order })
AdminRespond ==
    /\ adm.route = "notifier"
    /\ adm.pc = "respond"
    /\ adm' = [adm EXCEPT !.pc = "done", !.resp = AdmResp(200, adm.resp.order)]
    /\ UNCHANGED <<conn, cfg, cl, db, catalog, orders, rorders, rq, obs, nreq>>

\* admin router: UpdateOrderSchema
UpdateOrderSchema(body) ==
    /\ (body.status # <<>> /\ body.status # <<"">>) => body.status[1] \in ALLOWED_STATUSES
    /\ (body.paymentStatus # <<>> /\ body.paymentStatus # <<"">>)
           => body.paymentStatus[1] \in ALLOWED_PSTATUS

\* admin router: requireAdmin, then router.patch('/orders/:id'); `note` is not
\* a path of orderSchema and is dropped from the update
RouterPatch ==
    /\ adm.route = "patch"
    /\ adm.pc = "recv"
    /\ IF ~adm.auth
       THEN /\ adm' = [adm EXCEPT !.pc = "done", !.resp = AdmResp(401, <<>>)]
            /\ UNCHANGED rorders
       ELSE IF ~UpdateOrderSchema(adm.body)
       THEN /\ adm' = [adm EXCEPT !.pc = "done", !.resp = AdmResp(400, <<>>)]
            /\ UNCHANGED rorders
       ELSE \E out \in UpdateOutcomes(TRUE, adm.id) :
            \E k \in {FindById(rorders, adm.id)} :
            \E changed \in {{f \in {"status", "paymentStatus"} :
                               adm.body[f] # <<>> /\ adm.body[f] # <<"">>}} :
                IF out = "throw"
                THEN /\ adm' = [adm EXCEPT !.pc = "done", !.resp = AdmResp(500, <<>>)]
                     /\ UNCHANGED rorders
                ELSE IF k = 0
                THEN /\ adm' = [adm EXCEPT !.pc = "done", !.resp = AdmResp(404, <<>>)]
                     /\ UNCHANGED rorders
                ELSE /\ rorders' = [rorders EXCEPT
                            ![k].status = IF "status" \in changed
                                          THEN adm.body.status[1] ELSE @,
                            ![k].paymentStatus = IF "paymentStatus" \in changed
                                                 THEN adm.body.paymentStatus[1] ELSE @]
                     /\ adm' = [adm EXCEPT !.pc = "done", !.k = k, !.written = TRUE,
                                           !.changed = changed,
                                           !.resp = AdmResp(200, <<rorders'[k]>>)]
    /\ UNCHANGED <<conn, cfg, cl, db, catalog, orders, rq, obs, nreq>>

\* admin router: router.post('/orders/:id/status') with UpdateStatusSchema
RouterStatus ==
    /\ adm.route = "status"
    /\ adm.pc = "recv"
    /\ IF ~adm.auth
       THEN /\ adm' = [adm EXCEPT !.pc = "done", !.resp = AdmResp(401, <<>>)]
            /\ UNCHANGED rorders
       ELSE IF adm.body.status = <<>> \/ adm.body.status[1] \notin ALLOWED_STATUSES
       THEN /\ adm' = [adm EXCEPT !.pc = "done", !.resp = AdmResp(400, <<>>)]
            /\ UNCHANGED rorders
       ELSE \E out \in UpdateOutcomes(TRUE, adm.id) :
            \E k \in {FindById(rorders, adm.id)} :
                IF out = "throw"
                THEN /\ adm' = [adm EXCEPT !.pc = "done", !.resp = AdmResp(500, <<>>)]
                     /\ UNCHANGED rorders
                ELSE IF k = 0
                THEN /\ adm' = [adm EXCEPT !.pc = "done", !.resp = AdmResp(404, <<>>)]
                     /\ UNCHANGED rorders
                ELSE /\ rorders' = [rorders EXCEPT ![k].status = adm.body.status[1]]
                     /\ adm' = [adm EXCEPT !.pc = "done", !.k = k, !.written = TRUE,
                                           !.changed = {"status"},
                                           !.resp = AdmResp(200, <<rorders'[k]>>)]
    /\ UNCHANGED <<conn, cfg, cl, db, catalog, orders, rq, obs, nreq>>

-----------------------------------------------------------------------------
(* Client store: the cart in localStorage *)

\* x <= 0 and x > 0 as JavaScript evaluates them: false for NaN and for "abc"
LeZero(x) == x.t = "number" /\ x.v <= 0
GtZero(x) == x.t = "number" /\ x.v > 0

\* a + b
Plus(a, b) ==
    CASE a.t = "string" \/ b.t = "string" -> Text
      [] a.t = "nan" \/ b.t = "nan"       -> NaN
      [] OTHER                            -> Num(a.v + b.v)

\* c.find(i => i.id === productId): the index of the first match, 0 for none
CartFind(c, productId) ==
    IF \E i \in 1..Len(c) : c[i].id = productId
    THEN CHOOSE i \in 1..Len(c) :
             c[i].id = productId /\ \A j \in 1..(i - 1) : c[j].id # productId
    ELSE 0

\* c.splice(i, 1)
Splice(c, i) == [j \in 1..(Len(c) - 1) |-> IF j < i THEN c[j] ELSE c[j + 1]]

\* the quantity updateQty stores: qty itself in part_008,
\* Math.max(0, Math.floor(Number(qty || 0))) in store.js
StoredQty(ver, qty) ==
    CASE ver = "old"       -> qty
      [] qty.t = "string"  -> NaN
      [] qty.t = "nan"     -> Num(0)
      [] OTHER             -> Num(IF qty.v > 0 THEN qty.v ELSE 0)

\* quantities, product ids and the largest quantity of one cart entry
MaxQty == 4
CartIds == {"tee", "cap"}
AddQtys == {Num(1), Num(2)}
UpdateQtys == {Num(-1), Num(0), Num(3), NaN, Text}

addToCart(productId, qty) ==
    /\ \E i \in {CartFind(cl.cart, productId)} :
         IF i > 0
         THEN /\ LET sum == Plus(cl.cart[i].qty, qty)
                 IN  sum.t = "number" => sum.v <= MaxQty
              /\ cl' = [cl EXCEPT !.cart[i].qty = Plus(cl.cart[i].qty, qty),
                                  !.last = [op |-> "addToCart", id |-> productId,
                                            qty |-> qty, before |-> cl.cart]]
         ELSE cl' = [cl EXCEPT !.cart = Append(cl.cart, [id |-> productId, qty |-> qty]),
                               !.last = [op |-> "addToCart", id |-> productId,
                                         qty |-> qty, before |-> cl.cart]]
    /\ UNCHANGED <<conn, cfg, db, catalog, orders, rorders, rq, obs, nreq, adm>>

updateQty(productId, qty) ==
    /\ \E i \in {CartFind(cl.cart, productId)}, q \in {StoredQty(cl.ver, qty)} :
         cl' = [cl EXCEPT !.cart = IF i = 0 THEN cl.cart
                                   ELSE IF LeZero(q) THEN Splice(cl.cart, i)
                                   ELSE [cl.cart EXCEPT ![i].qty = q],
                          !.last = [op |-> "updateQty", id |-> productId,
                                    qty |-> qty, before |-> cl.cart]]
    /\ UNCHANGED <<conn, cfg, db, catalog, orders, rorders, rq, obs, nreq, adm>>

clearCart ==
    /\ cl' = [cl EXCEPT !.cart = <<>>,
                        !.last = [op |-> "clearCart", id |-> "", qty |-> Num(0),
                                  before |-> cl.cart]]
    /\ UNCHANGED <<conn, cfg, db, catalog, orders, rorders, rq, obs, nreq, adm>>

-----------------------------------------------------------------------------
(* Client store: apiReady, products and placeOrder *)

\* the default maxAgeMs of apiReady, in ticks of the clock
maxAgeMs == 2

\* the last tick of the clock, and the number of calls of placeOrder
MaxClock == 3
MaxPlaced == 1

\* outcomes of HEAD /api/health: a 2xx, a 404, another status, a throw of fetch
\* (network error or the abort after 7000 ms)
HealthOutcomes == {"2xx", "404", "503", "error"}

\* r.ok || r.status === 404
Reachable(out) == out \in {"2xx", "404"}

\* now - _apiHealth.checkedAt < maxAgeMs
Fresh == cl.now - cl.health.checkedAt < maxAgeMs

\* the call record after the synchronous part of apiReady: an answer from the
\* cache, or a health request in flight
ApiReadyCall(op) ==
    IF Fresh THEN [op EXCEPT !.pc = "cached", !.ready = cl.health.ok, !.t = cl.now]
    ELSE [op EXCEPT !.pc = "health", !.t = cl.now]

\* an apiReady that never answers from the cache
ApiReadyCall_NoCache(op) == [op EXCEPT !.pc = "health", !.t = cl.now]

\* the health requests issued so far, after a call of apiReady
HealthLog == IF Fresh THEN cl.hlog ELSE Append(cl.hlog, cl.now)

\* Number(x || 0)
NumberOrZero(x) ==
    CASE x.t = "string" -> NaN
      [] x.t = "nan"    -> Num(0)
      [] OTHER          -> x

\* localProducts.find(x => x.id === i.id) || { title: 'Item', price: 0 }
FindProduct(products, id) ==
    IF \E p \in products : p.id = id
    THEN CHOOSE p \in products : p.id = id
    ELSE [id |-> id, title |-> "Item", price |-> 0]

\* the cart entries with the title and price of their product
Detailed(c, products) ==
    [i \in 1..Len(c) |->
        [id |-> c[i].id, qty |-> NumberOrZero(c[i].qty),
         title |-> FindProduct(products, c[i].id).title,
         price |-> FindProduct(products, c[i].id).price]]

IsPositive(it) == GtZero(it.qty)

\* the items placeOrder builds before its first await: store.js looks the
\* products up and drops quantities that are not positive, part_008 copies the
\* cart and looks the products up when it falls back
OrderItems(ver, c, products) ==
    IF ver = "new" THEN SelectSeq(Detailed(c, products), IsPositive)
    ELSE [i \in 1..Len(c) |-> [id |-> c[i].id, qty |-> c[i].qty, title |-> "", price |-> 0]]

RECURSIVE SumLocal(_, _)
\* items.reduce((s, it) => s + Number(it.product.price) * it.qty, 0)
SumLocal(items, i) ==
    IF i > Len(items) THEN 0
    ELSE items[i].price * items[i].qty.v + SumLocal(items, i + 1)

\* the info the checkout page passes to placeOrder: a name, a phone number, a
\* payment method, an address and a delivery zone
CheckoutInfo == [BasePayload EXCEPT !.email = <<>>]

\* the body of POST /api/orders: { order: { items, total, info } } in store.js,
\* { items: [{ productId, qty }], info } in part_008
OrderPayload(ver, items, subtotal) ==
    IF ver = "new"
    THEN [CheckoutInfo EXCEPT
             !.items = [i \in 1..Len(items) |->
                           [title |-> items[i].title, qty |-> items[i].qty.v,
                            half |-> FALSE, price |-> items[i].price]],
             !.total = <<subtotal>>, !.proof = FALSE]
    ELSE [CheckoutInfo EXCEPT
             !.shape = "bare",
             !.items = [i \in 1..Len(items) |->
                           [title |-> "", qty |-> items[i].qty.v,
                            half |-> FALSE, price |-> 0]],
             !.proof = FALSE]

\* the local fallback order
LocalOrder(c, ref) ==
    LET items == IF c.ver = "new" THEN c.po.items
                 ELSE Detailed(c.po.items, c.products)
    IN  [id |-> ref, items |-> items,
         total |-> IF c.ver = "new" THEN c.po.subtotal ELSE SumLocal(items, 1),
         status |-> "New"]

\* a fallback that leaves the cart as it is
Fallback_KeepCart(c, ref, why) ==
    [c EXCEPT !.lorders = Append(c.lorders, LocalOrder(c, ref)),
              !.po.pc = "done", !.po.result = "local", !.po.why = why]

\* list.push(order); this.saveOrders(list); this.clearCart(); return order;
\* why records what led here: apiReady answered false ("offline"), getJSON
\* threw on the response ("rejected"), fetch threw ("failed")
Fallback(c, ref, why) ==
    [c EXCEPT !.lorders = Append(c.lorders, LocalOrder(c, ref)),
              !.cart = <<>>, !.po.pc = "done", !.po.result = "local", !.po.why = why]

\* placeOrder once apiReady has answered: the POST is sent, or the local fallback
AfterReady(c, ready, ref) ==
    IF ready THEN [c EXCEPT !.po.pc = "post", !.po.ready = TRUE, !.po.sentAt = nreq]
    ELSE Fallback([c EXCEPT !.po.ready = FALSE], ref, "offline")

\* Store.placeOrder up to its first pending await
placeOrder ==
    /\ cl.po.pc \in {"idle", "done"}
    /\ cl.placed < MaxPlaced
    /\ \E items \in {OrderItems(cl.ver, cl.cart, cl.products)}, ref \in RefGen :
         \E op \in {ApiReadyCall([NoOp EXCEPT !.items = items,
                                              !.subtotal = SumLocal(items, 1),
                                              !.start = Len(cl.lorders)])} :
           cl' = IF op.pc = "health"
                 THEN [cl EXCEPT !.po = op, !.hlog = HealthLog, !.placed = @ + 1]
                 ELSE AfterReady([cl EXCEPT !.po = op, !.placed = @ + 1], op.ready, ref)
    /\ UNCHANGED <<conn, cfg, db, catalog, orders, rorders, rq, obs, nreq, adm>>

\* the health request of placeOrder settles
PlaceOrderHealth(out) ==
    /\ cl.po.pc = "health"
    /\ \E ref \in RefGen :
         cl' = AfterReady([cl EXCEPT !.health = [checkedAt |-> cl.po.t,
                                                 ok |-> Reachable(out)],
                                     !.po.got = out],
                          Reachable(out), ref)
    /\ UNCHANGED <<conn, cfg, db, catalog, orders, rorders, rq, obs, nreq, adm>>

\* the POST of placeOrder has not reached the server yet
PostInFlight == cl.po.pc = "post" /\ nreq = cl.po.sentAt

\* the server has answered the POST of placeOrder
PostAnswered == cl.po.pc = "post" /\ nreq = cl.po.sentAt + 1 /\ rq.pc = "done"

\* getJSON returns: a 2xx whose body does not say ok: false; otherwise it
\* throws and placeOrder falls back
PostResponse ==
    /\ PostAnswered
    /\ IF rq.resp.status = 200 /\ rq.resp.ok
       THEN cl' = [cl EXCEPT !.cart = <<>>, !.po.pc = "done", !.po.result = "api",
                             !.po.why = "accepted"]
       ELSE \E ref \in RefGen : cl' = Fallback(cl, ref, "rejected")
    /\ UNCHANGED <<conn, cfg, db, catalog, orders, rorders, rq, obs, nreq, adm>>

\* fetch throws: a network error, a response that is lost, or the abort after
\* the timeout (20000 ms in store.js, 15000 ms in part_008)
PostFails ==
    /\ cl.po.pc = "post"
    /\ \E ref \in RefGen : cl' = Fallback(cl, ref, "failed")
    /\ UNCHANGED <<conn, cfg, db, catalog, orders, rorders, rq, obs, nreq, adm>>

\* the local cache products() writes: id is p._id || p.id || p.slug
Cached(list) == {[id |-> p.slug, title |-> p.title, price |-> p.price] : p \in list}

\* Store.products up to its first pending await; the page calls it once
products ==
    /\ cl.pr.pc = "idle"
    /\ \E op \in {ApiReadyCall(NoOp)} :
         cl' = [cl EXCEPT !.pr = IF op.pc = "health" THEN op
                                 ELSE [op EXCEPT !.pc = IF op.ready THEN "get" ELSE "done"],
                          !.hlog = HealthLog]
    /\ UNCHANGED <<conn, cfg, db, catalog, orders, rorders, rq, obs, nreq, adm>>

\* the health request of products() settles
ProductsHealth(out) ==
    /\ cl.pr.pc = "health"
    /\ cl' = [cl EXCEPT !.health = [checkedAt |-> cl.pr.t, ok |-> Reachable(out)],
                        !.pr.got = out, !.pr.ready = Reachable(out),
                        !.pr.pc = IF Reachable(out) THEN "get" ELSE "done"]
    /\ UNCHANGED <<conn, cfg, db, catalog, orders, rorders, rq, obs, nreq, adm>>

\* GET /api/products settles: store.js caches the list it got, part_008
\* returns it; after a failure both return the local products
ProductsResponse(ok) ==
    /\ cl.pr.pc = "get"
    /\ cl' = [cl EXCEPT !.pr.pc = "done",
                        !.pr.result = IF ok THEN "api" ELSE "local",
                        !.products = IF ok /\ cl.ver = "new" THEN Cached(catalog) ELSE @]
    /\ UNCHANGED <<conn, cfg, db, catalog, orders, rorders, rq, obs, nreq, adm>>

\* Date.now() advances
Tick ==
    /\ cl.now < MaxClock
    /\ cl' = [cl EXCEPT !.now = @ + 1]
    /\ UNCHANGED <<conn, cfg, db, catalog, orders, rorders, rq, obs, nreq, adm>>

-----------------------------------------------------------------------------
(* Specifications *)

\* the steps of handleCreateOrder and of the router's POST handler
Handle ==
    \/ ParseOrder
    \/ UploadProof
    \/ SaveOrder
    \/ BuildPdf
    \/ EmailAdmin
    \/ EmailCustomer
    \/ WhatsAppAdmin
    \/ WhatsAppCustomer
    \/ RespondOk
    \/ RouterCreate

\* order creation on both servers
Next ==
    \/ MongoConnected
    \/ MongoDisconnected
    \/ (nreq < MaxRequests /\
           \E route \in {"notifier", "router"}, p \in Payloads : Receive(route, p))
    \/ Handle

Spec == Init /\ [][Next]_vars

\* a handler resumes whenever the promise it awaits settles; at most one step
\* of Handle is enabled at a time, the one rq.pc selects
Fairness == WF_vars(Handle)

SpecLive == Spec /\ Fairness

\* order creation and order tracking, WhatsApp and Cloudinary not configured
InitTrack == Init /\ cfg = [wa |-> FALSE, tmpl |-> FALSE, cloud |-> FALSE]

NextTrack ==
    \/ MongoConnected
    \/ MongoDisconnected
    \/ (nreq < MaxTracked /\
           \E route \in {"notifier", "router"}, p \in Payloads : Receive(route, p))
    \/ Handle
    \/ \E ref \in QueryRefs, phone \in QueryPhones, email \in QueryEmails :
           Track(ref, phone, email)
    \/ \E ref \in QueryRefs, phone \in QueryPhones, email \in QueryEmails :
           RouterTrack(ref, phone, email)

SpecTrack == InitTrack /\ [][NextTrack]_vars

\* order intake alone: one received request per payload and server
InitIntake ==
    /\ conn = FALSE
    /\ cfg = [wa |-> FALSE, tmpl |-> FALSE, cloud |-> FALSE]
    /\ orders = <<>>
    /\ rorders = <<>>
    /\ \E route \in {"notifier", "router"}, p \in IntakePayloads :
           rq = [IdleRq EXCEPT !.route = route, !.pc = "recv", !.p = p]
    /\ obs = NoObs
    /\ nreq = 1
    /\ adm = IdleAdm
    /\ catalog = DemoProducts
    /\ db = IdleDb
    /\ cl = IdleCl

NextIntake == ParseOrder \/ RouterCreate

SpecIntake == InitIntake /\ [][NextIntake]_vars

\* administrative updates on stores that hold one order each, written by
\* earlier requests
SeedItem == [productId |-> "m", title |-> "Mug", price |-> 80, qty |-> 2]

RouterSeed ==
    OrderDoc([ref |-> "lwg-bbbbbb", items |-> <<SeedItem>>, subtotal |-> 160,
              deliveryZone |-> "", deliveryFee |-> 0, grandTotal |-> 160,
              info |-> [name |-> "Ann", phone |-> PhoneE164, email |-> EmailUpper,
                        address |-> AddrOk],
              status |-> "New", paymentStatus |-> "Pending"], 1)

NotifierSeeds ==
    {NotifierDocOf(1, "LWG-AAAAAA", p, NotifierTotals(p), FALSE) :
         p \in {pp \in Payloads : IncomingOrderSchema(pp)}}

InitAdmin ==
    /\ conn = FALSE
    /\ cfg = [wa |-> FALSE, tmpl |-> FALSE, cloud |-> FALSE]
    /\ orders \in {<<d>> : d \in NotifierSeeds}
    /\ rorders = <<RouterSeed>>
    /\ orderSchema(RouterSeed, <<>>)
    /\ rq = IdleRq
    /\ obs = NoObs
    /\ nreq = 0
    /\ adm = IdleAdm
    /\ catalog = DemoProducts
    /\ db = IdleDb
    /\ cl = IdleCl

AdminHandle ==
    \/ AdminPatch
    \/ AdminMail
    \/ AdminRespond
    \/ RouterPatch
    \/ RouterStatus

NextAdmin ==
    \/ MongoConnected
    \/ MongoDisconnected
    \/ (adm.n < MaxAdmin /\
           \E route \in {"notifier", "patch", "status"}, in \in AdminInputs :
               AdminReceive(route, in.auth, in.id, in.body))
    \/ AdminHandle

SpecAdmin == InitAdmin /\ [][NextAdmin]_vars

\* tracking and receipt download over collections written by earlier requests
InitReceipt ==
    /\ conn = FALSE
    /\ cfg = [wa |-> FALSE, tmpl |-> FALSE, cloud |-> FALSE]
    /\ orders \in {<<>>} \cup {<<d>> : d \in NotifierSeeds}
    /\ rorders \in {<<>>, <<RouterSeed>>}
    /\ rq = IdleRq
    /\ obs = NoObs
    /\ nreq = 0
    /\ adm = IdleAdm
    /\ catalog = DemoProducts
    /\ db = IdleDb
    /\ cl = IdleCl

NextReceipt ==
    \/ MongoConnected
    \/ MongoDisconnected
    \/ \E ref \in QueryRefs, phone \in QueryPhones, email \in QueryEmails :
           Track(ref, phone, email)
    \/ \E ref \in QueryRefs, phone \in QueryPhones, email \in QueryEmails :
           RouterTrack(ref, phone, email)
    \/ \E ref \in QueryRefs, phone \in QueryPhones, email \in QueryEmails,
          render \in RenderOut : Receipt(ref, phone, email, render)
    \/ \E ref \in QueryRefs, phone \in QueryPhones, email \in QueryEmails,
          render \in RenderOut : RouterReceipt(ref, phone, email, render)

SpecReceipt == InitReceipt /\ [][NextReceipt]_vars

\* every operation on the stores: creations, tracking, receipts, administrative
\* updates and reseeding of the catalog
StorePayloads ==
    { [BasePayload EXCEPT !.id = "LWG-AAAAAA", !.phone = PhoneLocal, !.email = <<>>,
                          !.proof = FALSE] }

StoreQueries == { <<"LWG-AAAAAA", Eq(PhoneE164), NoQ>> }

StoreUpdates ==
    [auth : {TRUE}, id : {1},
     body : {[status |-> <<"Shipped">>, paymentStatus |-> <<"Paid">>, note |-> TRUE]}]

StoredOrder ==
    NotifierDocOf(1, "LWG-AAAAAA", [BasePayload EXCEPT !.id = "LWG-AAAAAA"],
                  NotifierTotals([BasePayload EXCEPT !.id = "LWG-AAAAAA"]), FALSE)

InitStore ==
    /\ conn = FALSE
    /\ cfg = [wa |-> FALSE, tmpl |-> FALSE, cloud |-> FALSE]
    /\ catalog = DemoProducts
    /\ db = IdleDb
    /\ cl = IdleCl
    /\ orders = <<StoredOrder>>
    /\ rorders = <<RouterSeed>>
    /\ rq = IdleRq
    /\ obs = NoObs
    /\ nreq = 0
    /\ adm = IdleAdm

NextStore ==
    \/ MongoConnected
    \/ MongoDisconnected
    \/ Seed
    \/ (nreq < MaxTracked /\
           \E route \in {"notifier", "router"}, p \in StorePayloads : Receive(route, p))
    \/ Handle
    \/ \E q \in StoreQueries : Track(q[1], q[2], q[3])
    \/ \E q \in StoreQueries : RouterTrack(q[1], q[2], q[3])
    \/ \E q \in StoreQueries, render \in RenderOut : Receipt(q[1], q[2], q[3], render)
    \/ \E q \in StoreQueries, render \in RenderOut : RouterReceipt(q[1], q[2], q[3], render)
    \/ (adm.n < MaxTracked /\
           \E route \in {"notifier", "patch", "status"}, in \in StoreUpdates :
               AdminReceive(route, in.auth, in.id, in.body))
    \/ AdminHandle

SpecStore == InitStore /\ [][NextStore]_vars

\* order creation with explicit fee and total values in the payload
TotalsPayloads ==
    {[BasePayload EXCEPT !.proof = FALSE, !.deliveryFee = f, !.grandTotal = g, !.total = t] :
         f \in {<<>>, <<10>>, <<-5>>}, g \in {<<>>, <<100>>, <<-1>>}, t \in {<<>>, <<200>>}}

NextTotals ==
    \/ MongoConnected
    \/ MongoDisconnected
    \/ (nreq < MaxTracked /\
           \E route \in {"notifier", "router"}, p \in TotalsPayloads : Receive(route, p))
    \/ Handle

SpecTotals == InitTrack /\ [][NextTotals]_vars

\* creations followed by track requests of the customer: two orders of one
\* customer that differ in their items, sent with the same client-side id
RoundTripPayloads ==
    {[BasePayload EXCEPT !.id = "LWG-AAAAAA", !.email = <<>>, !.proof = FALSE, !.items = its] :
         its \in {<<Mug>>, <<Mug, Pen>>}}

RoundTripQueries == {<<"LWG-AAAAAA", Eq(PhoneE164), NoQ>>}

NextRoundTrip ==
    \/ MongoConnected
    \/ MongoDisconnected
    \/ (nreq < MaxRequests /\
           \E route \in {"notifier", "router"}, p \in RoundTripPayloads : Receive(route, p))
    \/ Handle
    \/ \E q \in RoundTripQueries : Track(q[1], q[2], q[3])
    \/ \E q \in RoundTripQueries : RouterTrack(q[1], q[2], q[3])

SpecRoundTrip == InitTrack /\ [][NextRoundTrip]_vars

\* the connection utilities alone, in either copy of connectDB
InitDb ==
    /\ conn = FALSE
    /\ cfg = [wa |-> FALSE, tmpl |-> FALSE, cloud |-> FALSE]
    /\ catalog = DemoProducts
    /\ db \in {[IdleDb EXCEPT !.ver = v] : v \in {"a", "b"}}
    /\ cl = IdleCl
    /\ orders = <<>>
    /\ rorders = <<>>
    /\ rq = IdleRq
    /\ obs = NoObs
    /\ nreq = 0
    /\ adm = IdleAdm

NextDb ==
    \/ (db.n < MaxCalls /\
           \E uri \in BOOLEAN, maxRetries \in RetryOptions : ConnectDB(uri, maxRetries))
    \/ \E i \in 1..MaxCalls : Attempt(i)
    \/ \E i \in 1..MaxCalls : Backoff(i)
    \/ \E i \in 1..MaxCalls : Finally(i)
    \/ DbDisconnected

SpecDb == InitDb /\ [][NextDb]_vars

\* the cart operations of either copy of the store
InitCart ==
    /\ conn = FALSE
    /\ cfg = [wa |-> FALSE, tmpl |-> FALSE, cloud |-> FALSE]
    /\ orders = <<>>
    /\ rorders = <<>>
    /\ rq = IdleRq
    /\ obs = NoObs
    /\ nreq = 0
    /\ adm = IdleAdm
    /\ catalog = DemoProducts
    /\ db = IdleDb
    /\ cl \in {[IdleCl EXCEPT !.ver = v] : v \in {"new", "old"}}

NextCart ==
    \/ \E productId \in CartIds, qty \in AddQtys : addToCart(productId, qty)
    \/ \E productId \in CartIds, qty \in UpdateQtys : updateQty(productId, qty)
    \/ clearCart

SpecCart == InitCart /\ [][NextCart]_vars

\* carts a shopper can have built: empty, one product, a product that is not
\* among the local products next to an entry of quantity zero
ClientCarts ==
    { <<>>,
      <<[id |-> "tee", qty |-> Num(2)]>>,
      <<[id |-> "gone", qty |-> Num(0)]>> }

\* one browser with either copy of the store, and the two servers
InitClient ==
    /\ conn = TRUE
    /\ cfg = [wa |-> FALSE, tmpl |-> FALSE, cloud |-> FALSE]
    /\ orders = <<>>
    /\ rorders = <<>>
    /\ rq = IdleRq
    /\ obs = NoObs
    /\ nreq = 0
    /\ adm = IdleAdm
    /\ catalog = DemoProducts
    /\ db = IdleDb
    /\ cl \in {[IdleCl EXCEPT !.ver = v, !.cart = c, !.now = maxAgeMs] :
                  v \in {"new", "old"}, c \in ClientCarts}

NextClient ==
    \/ placeOrder
    \/ \E out \in HealthOutcomes : PlaceOrderHealth(out)
    \/ (PostInFlight /\
           \E route \in {"notifier", "router"} :
               Receive(route, OrderPayload(cl.ver, cl.po.items, cl.po.subtotal)))
    \/ Handle
    \/ PostResponse
    \/ PostFails
    \/ products
    \/ \E out \in HealthOutcomes : ProductsHealth(out)
    \/ \E ok \in BOOLEAN : ProductsResponse(ok)
    \/ Tick

SpecClient == InitClient /\ [][NextClient]_vars

-----------------------------------------------------------------------------
(* Properties *)

\* C1: every validated order-creation request whose order was not persisted
\* (store not connected, or the store write threw) still ends with the
\* response {ok:true, ref, id:null}; on the notifier the receipt generation
\* and the admin notifications have run by then.
C1_PersistFailureTolerated ==
    (rq.pc = "done" /\ rq.valid /\ rq.saved = <<>>) =>
        /\ rq.resp = [status |-> 200, ok |-> TRUE, ref |-> rq.ref, id |-> 0]
        /\ rq.route = "notifier" =>
               /\ rq.pdfBuf \/ "pdf" \in rq.fails
               /\ {"adminEmail", "adminWA"} \subseteq rq.att

\* C2: no two persisted orders of a collection have the same reference.
C2_UniqueRefs ==
    /\ \A i, j \in 1..Len(orders) : i # j => orders[i].ref # orders[j].ref
    /\ \A i, j \in 1..Len(rorders) : i # j => rorders[i].ref # rorders[j].ref

\* C3: once the notifier has validated a request and the store write has not
\* thrown, the response is {ok:true, ref} whatever the outcomes of the proof
\* upload, the receipt rendering, the two emails and the two WhatsApp blocks.
C3_ResponseUnaffected ==
    (rq.route = "notifier" /\ rq.pc = "done" /\ rq.valid /\ "save" \notin rq.fails) =>
        /\ rq.resp.status = 200
        /\ rq.resp.ok
        /\ rq.resp.ref = rq.ref

\* a response sent after the upload, the receipt, the admin email and both
\* WhatsApp blocks failed while the customer email went out
C3_Witness ==
    /\ rq.route = "notifier"
    /\ rq.pc = "done"
    /\ rq.resp.ok
    /\ {"upload", "pdf", "adminEmail", "adminWA", "custWA"} \subseteq rq.fails
    /\ "custEmail" \in rq.att \ rq.fails

\* C4: when the notifier responds to a validated request, the channels it has
\* attempted are the admin email and the admin WhatsApp, the customer email
\* exactly when the order has an email, and the customer WhatsApp exactly
\* when the phone matches ^\+\d{8,15}$; a channel that was not attempted is
\* not reported as failed.
C4_ChannelsAttempted ==
    (rq.route = "notifier" /\ rq.pc = "done" /\ rq.resp.ok) =>
        /\ rq.att = {"adminEmail", "adminWA"}
                      \cup (IF rq.p.email # <<>> THEN {"custEmail"} ELSE {})
                      \cup (IF IsE164(rq.p.phone) THEN {"custWA"} ELSE {})
        /\ (rq.fails \cap Channels) \subseteq rq.att

\* a response for an order with a non-E.164 phone and no email: both customer
\* channels skipped although both admin channels failed
C4_Witness ==
    /\ rq.route = "notifier"
    /\ rq.pc = "done"
    /\ rq.resp.ok
    /\ rq.p.phone # <<>>
    /\ ~IsE164(rq.p.phone)
    /\ rq.p.email = <<>>
    /\ rq.att = {"adminEmail", "adminWA"}
    /\ rq.fails \cap Channels = {"adminEmail", "adminWA"}

\* the order a track response carries
TrackedOrder == IF obs.route = "notifier" THEN orders[obs.data] ELSE rorders[obs.data]

\* C5: a track response carries order data only when an order with the given
\* reference exists and the supplied phone or email equals the stored contact.
C5_TrackRequiresIdentity ==
    obs.status = 200 =>
        /\ obs.data \in 1..Len(IF obs.route = "notifier" THEN orders ELSE rorders)
        /\ TrackedOrder.ref = (IF obs.route = "notifier" THEN obs.ref ELSE ToUpperRef(obs.ref))
        /\ \/ /\ obs.phone.op = "eq"
              /\ obs.phone.v # <<>>
              /\ IF obs.route = "notifier" THEN obs.phone.v = TrackedOrder.info.phone
                 ELSE normalizePhone(obs.phone.v) = normalizePhone(TrackedOrder.info.phone)
           \/ /\ obs.email.op = "eq"
              /\ obs.email.v # <<>>
              /\ IF obs.route = "notifier" THEN obs.email.v = TrackedOrder.info.email
                 ELSE ToLowerCase(obs.email.v) = ToLowerCase(TrackedOrder.info.email)

\* C6: every order-creation request that was received is eventually answered.
C6_EventuallyResponds == (rq.pc = "recv") ~> (rq.pc = "done")

\* a payload that order intake has to reject
BadOrder(p) ==
    \/ Len(p.items) = 0
    \/ \E i \in 1..Len(p.items) :
           p.items[i].half \/ p.items[i].qty <= 0 \/ p.items[i].price < 0
    \/ p.address = <<>>

\* C7: a payload with no items, with a quantity that is <= 0 or not an
\* integer, with a negative price or with an empty address is rejected by
\* intake with a 400 response.
C7_RejectsInvalid ==
    (rq.pc # "recv" /\ BadOrder(rq.p)) =>
        /\ ~rq.valid
        /\ rq.resp.status = 400
        /\ ~rq.resp.ok

\* everything but the contact fields of a nested-shape payload is valid
OtherwiseValid(p) ==
    /\ p.shape = "front"
    /\ Len(p.items) >= 1
    /\ ~BadOrder(p)
    /\ Len(p.address) >= 3
    /\ p.name # ""
    /\ p.payment # ""
    /\ NonNegOpt(p.total) /\ NonNegOpt(p.deliveryFee)
    /\ NonNegOpt(p.subtotal) /\ NonNegOpt(p.grandTotal)

HasDigit(s) == \E i \in 1..Len(s) : s[i] \in Digit

\* C8: an otherwise valid payload passes the contact check when its phone or
\* its email is valid, and fails it when it has neither a phone with a digit
\* nor an email of the form x@y.z.
C8_ContactCheck ==
    (rq.pc # "recv" /\ OtherwiseValid(rq.p)) =>
        /\ (IsE164(rq.p.phone) \/ (isEmail(rq.p.email) /\ ZodEmail(rq.p.email))) => rq.valid
        /\ (~HasDigit(rq.p.phone) /\ ~isEmail(rq.p.email)) => ~rq.valid

\* the totals of the order appear unchanged in the stored document, in the
\* receipt and in the notifications
TotalsCarried ==
    /\ (rq.route = "notifier" /\ rq.saved # <<>>) =>
           /\ orders[rq.saved[1].id].info.subtotal = rq.totals.subtotal
           /\ orders[rq.saved[1].id].info.deliveryFee = rq.totals.deliveryFee
           /\ orders[rq.saved[1].id].info.grandTotal = rq.totals.grandTotal
    /\ (rq.route = "router" /\ rq.saved # <<>>) =>
           /\ rorders[rq.saved[1].id].subtotal = rq.totals.subtotal
           /\ rorders[rq.saved[1].id].deliveryFee = rq.totals.deliveryFee
           /\ rorders[rq.saved[1].id].grandTotal = rq.totals.grandTotal
    /\ rq.pdf # <<>> => rq.pdf[1] = rq.totals
    /\ rq.notified # <<>> => rq.notified[1] = rq.totals

C10_SubtotalAndFee ==
    rq.valid =>
        /\ (rq.p.subtotal = <<>> /\ rq.p.total = <<>>) =>
               rq.totals.subtotal = SumItems(rq.p.items, 1)
        /\ rq.p.deliveryFee # <<>> => rq.totals.deliveryFee = rq.p.deliveryFee[1]
        /\ rq.p.deliveryFee = <<>> =>
               rq.totals.deliveryFee = feeFromZone(rq.p.deliveryZone)


\* the collection an administrative route updates
AdminStore == IF adm.route = "notifier" THEN orders ELSE rorders

\* the stored order carries every status field the body of the request set
BodyStored(o) ==
    /\ "status" \in adm.changed => o.status = adm.body.status[1]
    /\ "paymentStatus" \in adm.changed => o.paymentStatus = adm.body.paymentStatus[1]

\* C11: an administrative update writes the new status/paymentStatus to the
\* store before the receipt or the customer email is attempted; a request for
\* an unknown id, or whose store write fails, is answered 404 or 5xx (or 4xx
\* by an earlier check), leaves both collections as they were and attempts no
\* customer email.
C11_WriteBeforeNotify ==
    /\ [](adm.att # {} => (adm.written /\ adm.k # 0 /\ BodyStored(AdminStore[adm.k])))
    /\ []((adm.pc = "done" /\ adm.auth /\ FindById(AdminStore, adm.id) = 0) =>
              adm.resp.status \in {400, 404, 500})
    /\ []((adm.pc = "done" /\ adm.resp.status # 200) => adm.att = {})
    /\ [][(adm'.pc = "done" /\ adm.pc # "done" /\ adm'.resp.status # 200) =>
              (orders' = orders /\ rorders' = rorders)]_vars

\* the customer email of an update is being sent, the store already holding
\* the new status and paymentStatus
C11_Witness ==
    /\ adm.route = "notifier"
    /\ "mail" \in adm.att
    /\ adm.written
    /\ adm.changed = {"status", "paymentStatus"}
    /\ orders[adm.k].status = "Shipped"
    /\ orders[adm.k].paymentStatus = "Paid"


\* C12: when the receipt rendering or the email send of the notifier's
\* administrative update throws, the request is still answered 200 ok:true
\* with the updated order, the stored order keeps the new status and
\* paymentStatus, and the email is not sent a second time.
C12_MailFailureTolerated ==
    (adm.route = "notifier" /\ adm.fails # {}) =>
        /\ adm.pc \in {"respond", "done"}
        /\ adm.sent <= 1
        /\ BodyStored(orders[adm.k])
        /\ adm.pc = "done" =>
               /\ adm.resp.status = 200
               /\ adm.resp.ok
               /\ adm.resp.order = <<orders[adm.k]>>
               /\ BodyStored(adm.resp.order[1])

\* an update answered after its customer email failed to send
C12_Witness ==
    /\ adm.route = "notifier"
    /\ adm.pc = "done"
    /\ "mail" \in adm.fails
    /\ adm.changed = {"status", "paymentStatus"}
    /\ adm.resp.ok
    /\ orders[adm.k].status = "Shipped"


\* C13: every stored order has a status in {New, Processing, Shipped,
\* Completed, Cancelled} and a paymentStatus in {Pending, Paid, Failed,
\* Refunded}.
C13_StatusEnums ==
    /\ \A i \in 1..Len(orders) :
           /\ orders[i].status \in ALLOWED_STATUSES
           /\ orders[i].paymentStatus \in PAYMENT_STATES
    /\ \A i \in 1..Len(rorders) :
           /\ rorders[i].status \in ALLOWED_STATUSES
           /\ rorders[i].paymentStatus \in PAYMENT_STATES


\* a body field that is absent or holds a value of its enum
InEnum(v, enum) == v = <<>> \/ v[1] \in enum

\* C14: an authorised administrative update of a stored order, whose store
\* write does not fail, moves status to any value of the status enum and
\* paymentStatus to any value of the paymentStatus enum (Refunded included),
\* whatever the field held before.
C14_Unconstrained ==
    (/\ adm.pc = "done"
     /\ adm.auth
     /\ FindById(AdminStore, adm.id) # 0
     /\ adm.resp.status # 500
     /\ InEnum(adm.body.status, ALLOWED_STATUSES)
     /\ InEnum(adm.body.paymentStatus, PAYMENT_STATES)) =>
        /\ adm.body.status # <<>> =>
               AdminStore[adm.id].status = adm.body.status[1]
        /\ (adm.body.paymentStatus # <<>> /\ adm.route \in {"notifier", "patch"}) =>
               AdminStore[adm.id].paymentStatus = adm.body.paymentStatus[1]


\* a WhatsApp block of handleCreateOrder has just run with WhatsApp configured
WaBlockRan ==
    /\ rq.route = "notifier"
    /\ cfg.wa
    /\ \/ rq.pc = "custWA"
       \/ rq.pc \in {"respond", "done"} /\ "custWA" \in rq.att

\* C15: in each WhatsApp block that is attempted, the template message is
\* tried first when a template is configured; a text message follows whenever
\* no template is configured or the template attempt did not succeed (non-2xx
\* response or exception); no text message follows a successful template.
C15_TemplateThenText ==
    WaBlockRan =>
        /\ rq.blk # <<>>
        /\ cfg.tmpl => rq.blk[1].kind = "template"
        /\ (cfg.tmpl /\ rq.blk[1].out = "ok") => Len(rq.blk) = 1
        /\ (~cfg.tmpl \/ rq.blk[1].out \in {"non2xx", "throw"}) =>
               rq.blk[Len(rq.blk)].kind = "text"


\* C16: during one order creation every notification channel runs its block
\* at most once, failed or not, a WhatsApp block makes at most two fetches
\* (template, then text), and no channel gets more than one message accepted.
C16_AtMostOnce ==
    /\ \A c \in Channels :
           /\ rq.cnt[c] <= 1
           /\ rq.dlv[c] <= 1
           /\ c \in rq.fails => rq.cnt[c] = 1
    /\ Len(rq.blk) <= 2

\* the admin WhatsApp block fell back to a text message after a rejected
\* template, the admin email having failed before
C16_Witness ==
    /\ rq.route = "notifier"
    /\ rq.pc = "custWA"
    /\ "adminEmail" \in rq.fails
    /\ rq.cnt["adminEmail"] = 1
    /\ Len(rq.blk) = 2
    /\ rq.blk[1].out = "non2xx"
    /\ rq.blk[2].out = "ok"
    /\ rq.dlv["adminWA"] = 1


QueryArgs == QueryRefs \X QueryPhones \X QueryEmails

\* C19 as claimed: for every ref, phone and email and in every state,
\* receipt.pdf answers 200 with the receipt exactly when track answers 200
\* (for the same order), and otherwise answers the status of track without
\* receipt bytes, whether or not the rendering succeeds.
C19_ReceiptAsTrack ==
    \A q \in QueryArgs, render \in RenderOut :
        /\ ReceiptStatus(q[1], q[2], q[3], render).status = TrackStatus(q[1], q[2], q[3]).status
        /\ ReceiptStatus(q[1], q[2], q[3], render).data = TrackStatus(q[1], q[2], q[3]).data
        /\ ReceiptStatus(q[1], q[2], q[3], render).bytes
               <=> TrackStatus(q[1], q[2], q[3]).status = 200
        /\ RouterReceiptStatus(q[1], q[2], q[3], render).status
               = RouterTrackStatus(q[1], q[2], q[3]).status
        /\ RouterReceiptStatus(q[1], q[2], q[3], render).data
               = RouterTrackStatus(q[1], q[2], q[3]).data
        /\ RouterReceiptStatus(q[1], q[2], q[3], render).bytes
               <=> RouterTrackStatus(q[1], q[2], q[3]).status = 200

\* receipt.pdf against track for one request: the same answer, except that a
\* rendering exception before the first byte turns the 200 of track into a 500
\* without bytes
SameAsTrack(rc, t, failed) ==
    IF t.status = 200 /\ failed
    THEN rc = [status |-> 500, data |-> 0, bytes |-> FALSE]
    ELSE rc = [status |-> t.status, data |-> t.data, bytes |-> t.status = 200]

\* C19 amended: receipt.pdf applies the identity check of track: it answers
\* with the status of track and no bytes whenever track fails, and serves the
\* receipt of the order track returns unless the rendering throws before the
\* first byte, in which case it answers 500 without bytes.
C19_ReceiptIdentity ==
    \A q \in QueryArgs, render \in RenderOut :
        /\ SameAsTrack(ReceiptStatus(q[1], q[2], q[3], render),
                       TrackStatus(q[1], q[2], q[3]), render # "ok")
        /\ SameAsTrack(RouterReceiptStatus(q[1], q[2], q[3], render),
                       RouterTrackStatus(q[1], q[2], q[3]), render = "throw")

\* a receipt served by the notifier for a stored order
C19_Witness ==
    /\ obs.kind = "receipt"
    /\ obs.route = "notifier"
    /\ obs.status = 200
    /\ obs.bytes
    /\ orders[obs.data].ref = obs.ref


\* the step leaves the collection as it is or appends the one document this
\* request saved, a new order with status New and paymentStatus Pending
CreatesAtMostOne(coll, collNext) ==
    \/ collNext = coll
    \/ /\ rq.saved = <<>>
       /\ rq'.saved # <<>>
       /\ collNext = Append(coll, rq'.saved[1])
       /\ rq'.saved[1].status = "New"
       /\ rq'.saved[1].paymentStatus = "Pending"

\* C18: every step of a creation request leaves each collection unchanged or
\* appends exactly one new document with status New and paymentStatus Pending,
\* and only if the request has not saved one yet; the stored documents are never
\* modified; when the request is answered, the response carries an id exactly
\* when this request saved a document.
C18_OneDocumentPerRequest ==
    /\ [][/\ CreatesAtMostOne(orders, orders')
          /\ CreatesAtMostOne(rorders, rorders')
          /\ (orders' = orders \/ rorders' = rorders)
          /\ (rq.saved # <<>> /\ rq'.saved # rq.saved => rq'.pc = "recv")]_vars
    /\ [](rq.pc = "done" => (rq.resp.id # 0 <=> rq.saved # <<>>))
    /\ [](Len(orders) + Len(rorders) <= nreq)

\* a second creation answered with the id of its document while the document
\* of the first one is still stored
C18_Witness ==
    /\ rq.route = "notifier"
    /\ rq.pc = "done"
    /\ rq.resp.ok
    /\ Len(orders) = 2
    /\ rq.resp.id = orders[2].id
    /\ orders[2].status = "New"
    /\ orders[2].paymentStatus = "Pending"


\* the request being handled does not pass the schema of its server
FailsValidation ==
    \/ rq.route = "notifier" /\ ~IncomingOrderSchema(rq.p)
    \/ /\ rq.route = "router"
       /\ ~(IF rq.p.shape = "front" THEN FrontOrderSchema(rq.p) ELSE FlatOrderSchema(rq.p))

\* C20: a creation request that fails validation is answered ok:false with a
\* 4xx status in its first step, and during the whole request no proof is
\* uploaded, nothing is written to a store, no receipt is generated and no
\* notification is attempted; both stores are left unchanged.
C20_RejectedWithoutEffect ==
    /\ [](FailsValidation =>
            /\ rq.pc \in {"recv", "done"}
            /\ (rq.pc = "done" => ~rq.resp.ok /\ rq.resp.status \in 400..499)
            /\ ~rq.proofUrl
            /\ rq.saved = <<>>
            /\ ~rq.pdfBuf
            /\ rq.pdf = <<>>
            /\ rq.att = {}
            /\ rq.notified = <<>>
            /\ rq.fails = {}
            /\ \A c \in Channels : rq.cnt[c] = 0)
    /\ [][FailsValidation => orders' = orders /\ rorders' = rorders]_vars

\* a request with a proof and without items, rejected by a notifier that has
\* Cloudinary and the store available and already holds an order
C20_Witness ==
    /\ rq.route = "notifier"
    /\ rq.pc = "done"
    /\ ~IncomingOrderSchema(rq.p)
    /\ rq.p.proof
    /\ cfg.cloud
    /\ conn
    /\ rq.resp.status = 400
    /\ Len(orders) = 1


\* an order without its two mutable fields
Frame(o) == [o EXCEPT !.status = "", !.paymentStatus = ""]

\* the step is the store write of an authorised administrative update
AdminWrite == adm.pc = "recv" /\ adm.auth /\ ~adm.written /\ adm'.written

\* the step keeps every document of the collection, with its reference, items,
\* customer information and totals, and changes status or paymentStatus only
\* as the store write of an administrative update
Kept(coll, collNext) ==
    /\ Len(collNext) >= Len(coll)
    /\ \A i \in 1..Len(coll) :
           /\ Frame(collNext[i]) = Frame(coll[i])
           /\ (collNext[i] # coll[i] => AdminWrite)

\* C17: no step of any operation (creation, track, receipt, administrative
\* update, reseeding of the product catalog) removes a stored order or changes
\* anything of it other than status and paymentStatus, and these two change
\* only in the store write of an administrative update.
C17_OrdersImmutable == [][Kept(orders, orders') /\ Kept(rorders, rorders')]_vars

\* the first order after an administrative update changed its status, a second
\* creation with the same reference, a receipt download and an emptied catalog
C17_Witness ==
    /\ Len(orders) = 2
    /\ orders[2].ref = orders[1].ref
    /\ orders[1].status = "Shipped"
    /\ Frame(orders[1]) = Frame(StoredOrder)
    /\ rorders[1] = RouterSeed
    /\ catalog = {}
    /\ obs.kind = "receipt"
    /\ obs.status = 200


\* track requests of a caller who guesses the contact
GuessQueries == QueryArgs \cup {<<"lwg-bbbbbb", Eq(PhoneShort), NoQ>>,
                                <<"LWG-AAAAAA", Eq(PhoneShort), NoQ>>}

\* C25: a track request that is not answered with the order gets the response
\* (status and error text) it would get if no order of that reference were
\* stored, on either server.
C25_NoEnumeration ==
    \A q \in GuessQueries :
        /\ TrackBody(orders, q[1], q[2], q[3]).status # 200
               => TrackBody(orders, q[1], q[2], q[3])
                      = TrackBody(WithoutRef(orders, q[1]), q[1], q[2], q[3])
        /\ RouterTrackBody(rorders, q[1], q[2], q[3]).status # 200
               => RouterTrackBody(rorders, q[1], q[2], q[3])
                      = RouterTrackBody(WithoutRef(rorders, ToUpperRef(q[1])),
                                        q[1], q[2], q[3])


\* C28: every stored order has a subtotal, a deliveryFee and a grandTotal that
\* are >= 0, on either server.
C28_NonNegativeTotals ==
    /\ \A i \in 1..Len(orders) :
           /\ orders[i].info.subtotal >= 0
           /\ orders[i].info.deliveryFee >= 0
           /\ orders[i].info.grandTotal >= 0
    /\ \A i \in 1..Len(rorders) :
           /\ rorders[i].subtotal >= 0
           /\ rorders[i].deliveryFee >= 0
           /\ rorders[i].grandTotal >= 0


\* the creation request was answered ok:true with a reference and an id
CreatedOk(route) ==
    /\ rq.route = route
    /\ rq.pc = "done"
    /\ rq.resp.ok
    /\ rq.resp.id # 0

\* C29: once a creation is answered ok:true with reference r and an id, a track
\* request with r and the phone of the order (or with r and its email) is
\* answered 200 with an order that has the items and the totals of the
\* creation, status New and paymentStatus Pending (no administrative update
\* happens in this specification; the notifier's store is connected).
C29_RoundTrip ==
    /\ (CreatedOk("notifier") /\ conn) =>
           \A q \in {<<Eq(rq.p.phone), NoQ>>} \cup
                    (IF rq.p.email # <<>> THEN {<<NoQ, Eq(rq.p.email)>>} ELSE {}) :
               /\ TrackStatus(rq.resp.ref, q[1], q[2]).status = 200
               /\ \E o \in {orders[TrackStatus(rq.resp.ref, q[1], q[2]).data]} :
                      /\ o.items = rq.p.items
                      /\ o.info.subtotal = rq.totals.subtotal
                      /\ o.info.deliveryFee = rq.totals.deliveryFee
                      /\ o.info.grandTotal = rq.totals.grandTotal
                      /\ o.status = "New"
                      /\ o.paymentStatus = "Pending"
    /\ CreatedOk("router") =>
           \A q \in {<<Eq(rq.p.phone), NoQ>>} \cup
                    (IF rq.p.email # <<>> THEN {<<NoQ, Eq(rq.p.email)>>} ELSE {}) :
               /\ RouterTrackStatus(rq.resp.ref, q[1], q[2]).status = 200
               /\ \E o \in {rorders[RouterTrackStatus(rq.resp.ref, q[1], q[2]).data]} :
                      /\ o = rq.saved[1]
                      /\ o.status = "New"
                      /\ o.paymentStatus = "Pending"


\* C21: in every connection loop mongoose.connect is called at most maxRetries
\* times; a loop that rejects has made exactly maxRetries failed attempts; a
\* loop that has settled makes no further attempt; a call without a uri throws
\* without starting a loop.
C21_BoundedAttempts ==
    /\ [](\A i \in 1..Len(db.loops) :
              /\ db.loops[i].tries <= db.loops[i].max
              /\ (db.loops[i].pc = "rejected" => db.loops[i].attempt = db.loops[i].max))
    /\ [][/\ \A i \in 1..Len(db.loops) :
                 db.loops[i].pc \in {"resolved", "rejected"}
                     => /\ db'.loops[i].tries = db.loops[i].tries
                        /\ db'.loops[i].pc = db.loops[i].pc
          /\ (db'.n = db.n + 1 /\ db'.last.kind = "throw") => db'.loops = db.loops]_vars

\* the connection loops that have not settled
Running == {i \in 1..Len(db.loops) : db.loops[i].pc \in {"connect", "backoff"}}

\* C22: at most one connection loop runs at a time; a call made while the
\* latch is set starts no loop and gets the loop of the latch; the latch names
\* a loop until the finally of the call that started it has run, and exactly
\* the settled loop whose finally is still to run, so that this finally clears
\* it and the next call starts a new loop.
C22_SingleLoop ==
    /\ [](Cardinality(Running) <= 1)
    /\ [](\A i \in 1..Len(db.loops) : (db.connecting = i <=> ~db.loops[i].fin))
    /\ [][db'.n = db.n + 1 /\ db.connecting # 0 /\ db'.last.kind # "throw"
              => /\ db'.loops = db.loops
                 /\ db'.last = [kind |-> "join", loop |-> db.connecting]]_vars
    /\ [][db'.n = db.n + 1 /\ db.connecting = 0 /\ db'.last.kind \notin {"throw", "ready"}
              => /\ Len(db'.loops) = Len(db.loops) + 1
                 /\ db'.connecting = Len(db'.loops)]_vars

\* a call joined the second loop, started after the first loop had failed and
\* its latch was cleared
C22_Witness ==
    /\ Len(db.loops) = 2
    /\ db.loops[1].pc = "rejected"
    /\ db.loops[1].fin
    /\ db.loops[2].pc \in {"connect", "backoff"}
    /\ db.last = [kind |-> "join", loop |-> 2]


\* C30: after any sequence of addToCart calls with positive quantities, of
\* updateQty and of clearCart, the cart holds at most one entry per product id
\* and every entry has a quantity greater than zero; updateQty with a quantity
\* of zero or less removes the entry, updateQty for a product that is not in
\* the cart changes nothing
CartWellFormed(c) ==
    /\ \A i, j \in 1..Len(c) : c[i].id = c[j].id => i = j
    /\ \A i \in 1..Len(c) : GtZero(c[i].qty)

UpdateQtyEffect ==
    (cl'.last # cl.last /\ cl'.last.op = "updateQty") =>
        /\ LeZero(cl'.last.qty) => CartFind(cl'.cart, cl'.last.id) = 0
        /\ CartFind(cl.cart, cl'.last.id) = 0 => cl'.cart = cl.cart

C30_CartInvariant == [](CartWellFormed(cl.cart)) /\ [][UpdateQtyEffect]_vars


\* a call of placeOrder returns in this step
Returns == cl'.po.pc = "done" /\ cl'.po # cl.po

\* the order a fallback has appended to the local orders
Appended == cl'.lorders[Len(cl'.lorders)]

\* C23: placeOrder tries the API first and falls back to a local order: when
\* the API is reachable and accepts the order, the API response is returned and
\* no local order is added; when apiReady answers false or the request fails,
\* exactly one local order with a generated LWG- reference and status New is
\* appended; in both cases the cart is empty when placeOrder returns
C23_ApiFirstLocalFallback ==
    [][Returns =>
         /\ cl'.cart = <<>>
         /\ cl'.po.why \in {"accepted", "offline", "rejected", "failed"}
         /\ cl'.po.why = "accepted" <=>
                (cl'.po.ready /\ PostAnswered /\ rq.resp.status = 200 /\ rq.resp.ok
                    /\ cl'.po.result = "api")
         /\ cl'.po.why = "offline" <=> ~cl'.po.ready
         /\ cl'.po.why = "rejected" =>
                (PostAnswered /\ ~(rq.resp.status = 200 /\ rq.resp.ok))
         /\ IF cl'.po.why = "accepted"
            THEN cl'.lorders = cl.lorders
            ELSE /\ Len(cl'.lorders) = Len(cl.lorders) + 1
                 /\ SubSeq(cl'.lorders, 1, Len(cl.lorders)) = cl.lorders
                 /\ Appended.id \in RefGen
                 /\ Appended.status = "New"
                 /\ cl'.po.result = "local"]_vars

\* a cart with an item was ordered through the API: the server holds the
\* order, placeOrder has returned the response, and no local order exists
C23_Witness ==
    /\ cl.po.pc = "done"
    /\ cl.po.why = "accepted"
    /\ cl.po.items # <<>>
    /\ Len(orders) + Len(rorders) = 1
    /\ cl.lorders = <<>>
    /\ cl.cart = <<>>

\* an apiReady call of the step answered from the cache
FromCache(op, op2) == op2 # op /\ op2.pc # "health" /\ op.pc \in {"idle", "done"}

\* C24: apiReady answers from its cache without a request while the last health
\* check is younger than maxAgeMs; otherwise it performs a health request and
\* caches the outcome, a 2xx or a 404 as reachable, anything else as not
\* reachable; so no two health requests are issued less than maxAgeMs apart,
\* however the store operations interleave
C24_OneRequestPerWindow ==
    /\ [][/\ (FromCache(cl.po, cl'.po) \/ FromCache(cl.pr, cl'.pr)) =>
                (Fresh /\ cl'.hlog = cl.hlog /\ cl'.health = cl.health)
          /\ \A op \in {"po", "pr"} :
                (cl[op].pc \in {"idle", "done"} /\ cl'[op].pc = "health") =>
                    (~Fresh /\ cl'.hlog = Append(cl.hlog, cl.now))
          /\ \A op \in {"po", "pr"} :
                (cl[op].pc = "health" /\ cl'[op].pc # "health") =>
                    cl'.health = [checkedAt |-> cl[op].t,
                                  ok |-> cl'[op].got \in {"2xx", "404"}]]_vars
    /\ [](\A i, j \in 1..Len(cl.hlog) :
             i < j => cl.hlog[j] - cl.hlog[i] >= maxAgeMs)

\* C26: every execution of placeOrder, also one whose request times out on the
\* client or whose response is lost, leaves the order recorded in exactly one
\* place, on the server or in the local orders, never in both
C26_RecordedOnce ==
    cl.po.pc = "done" => Len(orders) + Len(rorders) + Len(cl.lorders) = cl.placed

\* C27: no order with an empty list of items is ever recorded: placeOrder with
\* an empty cart, with a cart whose quantities are all zero or less, or for an
\* order the server rejected as invalid, appends nothing to the local orders
C27_NoEmptyOrder ==
    /\ \A i \in 1..Len(cl.lorders) : cl.lorders[i].items # <<>>
    /\ \A i \in 1..Len(orders) : orders[i].items # <<>>
    /\ \A i \in 1..Len(rorders) : rorders[i].items # <<>>
    /\ (cl.po.pc = "done" /\ cl.po.why = "rejected" /\ rq.resp.status = 400) =>
           Len(cl.lorders) = cl.po.start

=============================================================================
